---- MODULE Spec2Model ----
(***************************************************************************)
(* Job tracker backend: the record service (jobController), its request    *)
(* validation (validator.js) and the job_applications table (schema.sql).  *)
(*                                                                         *)
(* Text values are sequences of one-character strings, so that trimming,   *)
(* case folding and pattern matching are computed rather than assumed.     *)
(* A JSON object (request body, query string) is a function whose domain   *)
(* is the set of keys the client supplied.                                 *)
(***************************************************************************)
EXTENDS Integers, Sequences, FiniteSets

\* ------------------------------------------------------------------ bounds

\* The clock stops here: it advances by one on every insert and update, so
\* this is also the number of rows ever inserted.
MaxNow == 2
\* Clock ticks per calendar day.
TicksPerDay == 2
\* Rows of the table the list specification starts from.
ListJobs == 2
\* Rows of the table the statistics specification starts from.
StatsJobs == 6
\* Rows of the table the update specification starts from.
UpdateJobs == 2

\* ------------------------------------------------------------ text values

Min(a, b) == IF a < b THEN a ELSE b

\* String.prototype.toLowerCase / the case folding of ILIKE, per character.
Lower(c) ==
  IF c = "G" THEN "g" ELSE IF c = "O" THEN "o"
  ELSE IF c \in {"Subject:", "SUBJECT:"} THEN "subject:" ELSE c

\* Whitespace, as trim() and \s take it: the blank and the line break.
IsSpace(c) == c \in {" ", "\n"}

RECURSIVE TrimLeft(_)
TrimLeft(s) ==
  IF s # <<>> /\ IsSpace(Head(s)) THEN TrimLeft(Tail(s)) ELSE s

RECURSIVE TrimRight(_)
TrimRight(s) ==
  IF s # <<>> /\ IsSpace(s[Len(s)]) THEN TrimRight(SubSeq(s, 1, Len(s) - 1)) ELSE s

\* express-validator's .trim() sanitizer: the trimmed value replaces the
\* field of the request.
Trim(s) == TrimRight(TrimLeft(s))

\* String.prototype.startsWith
StartsWith(s, p) == Len(s) >= Len(p) /\ SubSeq(s, 1, Len(p)) = p

\* String.prototype.split(sep): the pieces between the separators.
RECURSIVE Split(_, _)
Split(s, sep) ==
  IF \A i \in DOMAIN s : s[i] # sep THEN <<s>>
  ELSE LET i == CHOOSE k \in DOMAIN s : s[k] = sep /\ \A j \in 1..(k - 1) : s[j] # sep
       IN <<SubSeq(s, 1, i - 1)>> \o Split(SubSeq(s, i + 1, Len(s)), sep)

\* Array.prototype.join(sep)
RECURSIVE Join(_, _)
Join(parts, sep) ==
  IF parts = <<>> THEN <<>>
  ELSE IF Len(parts) = 1 THEN parts[1]
  ELSE parts[1] \o <<sep>> \o Join(Tail(parts), sep)

\* PostgreSQL ILIKE: "%" matches any run of characters, "_" any one
\* character, every other character matches itself up to case.
RECURSIVE ILike(_, _)
ILike(s, p) ==
  IF p = <<>> THEN s = <<>>
  ELSE IF Head(p) = "%"
    THEN ILike(s, Tail(p)) \/ (s # <<>> /\ ILike(Tail(s), p))
    ELSE /\ s # <<>>
         /\ (Head(p) = "_" \/ Lower(Head(p)) = Lower(Head(s)))
         /\ ILike(Tail(s), Tail(p))

\* An object without keys.
EmptyObj == [k \in {} |-> 0]

\* Object spread {...f, ...g}.
Merge(f, g) ==
  [k \in DOMAIN f \cup DOMAIN g |-> IF k \in DOMAIN g THEN g[k] ELSE f[k]]

\* The object has the key.
Has(body, f) == f \in DOMAIN body

\* ------------------------------------------------------------- the domain

Users == {"A", "B"}

Statuses == {"Applied", "Interview", "Rejected", "Offer"}

\* Columns of job_applications.
Columns ==
  {"id", "user_id", "company_name", "role", "status", "applied_date", "notes",
   "created_at", "updated_at"}

\* The calendar date of a timestamp: toISOString().split('T')[0].
DateOf(t) == t \div TicksPerDay

VARIABLES
  store,      \* the rows of job_applications
  accounts,   \* the rows of auth.users (user ids)
  nextId,     \* uuid_generate_v4(): the next fresh id
  now,        \* the clock: NOW() / new Date()
  inflight,   \* handlers suspended at an await between two store calls
  resp,       \* the response sent by the latest step (NoResp if it sent none)
  env         \* process.env: the variables set when the server was started

vars == <<store, accounts, nextId, now, inflight, resp, env>>

\* The handlers that can be suspended between two store calls.
Handlers == {"h1"}

Idle == [op |-> "idle"]
NoResp == [op |-> "none"]

\* Handlers of the specification at hand.
Slots == DOMAIN inflight

\* ------------------------------------------------------------- the store

\* PostgREST .maybeSingle(): no row is no error.
MaybeSingle(rows, fail) ==
  IF fail THEN [error |-> "STORE", data |-> <<>>]
  ELSE IF Cardinality(rows) = 1
    THEN [error |-> "NONE", data |-> <<CHOOSE r \in rows : TRUE>>]
    ELSE IF rows = {} THEN [error |-> "NONE", data |-> <<>>]
    ELSE [error |-> "PGRST116", data |-> <<>>]

\* PostgREST .single(): exactly one row, or the error PGRST116. `fail` is a
\* failure of the store itself (connection, timeout, server error).
Single(rows, fail) ==
  IF fail THEN [error |-> "STORE", data |-> <<>>]
  ELSE IF Cardinality(rows) = 1
    THEN [error |-> "NONE", data |-> <<CHOOSE r \in rows : TRUE>>]
    ELSE [error |-> "PGRST116", data |-> <<>>]

\* The same query without .eq('user_id', userId).
OwnedByIdAnyOwner(id, userId) == {r \in store : r.id = id}

\* .from('job_applications').select(..).eq('id', id).eq('user_id', userId)
OwnedById(id, userId) == {r \in store : r.id = id /\ r.user_id = userId}

\* Constraints of the table: primary key, foreign key to auth.users with
\* ON DELETE CASCADE, NOT NULL columns and the status CHECK.
RowOk(r) ==
  /\ r.user_id \in accounts
  /\ r.status \in Statuses

TableOk(rows) ==
  /\ \A r \in rows : RowOk(r)
  /\ \A r1, r2 \in rows : r1.id = r2.id => r1 = r2

\* ---------------------------------------------------------- validator.js

MaxNameLen == 200
MaxNotesLen == 2000

\* A date input is a day number; a negative one stands for a value that
\* isISO8601() rejects.
IsISO8601(d) == d >= 0

\* The sanitizers of both job rule sets: .trim() on company_name, role, notes.
SanitizeJob(body) ==
  [f \in DOMAIN body |->
     IF f \in {"company_name", "role", "notes"} THEN Trim(body[f]) ELSE body[f]]

\* The fields whose rule fails, for POST /api/jobs.
JobApplicationErrors(body) ==
  LET b == SanitizeJob(body) IN
    {f \in {"company_name", "role"} :
       ~Has(b, f) \/ b[f] = <<>> \/ Len(b[f]) > MaxNameLen}
    \cup {f \in {"status"} : ~Has(b, f) \/ b[f] \notin Statuses}
    \cup {f \in {"applied_date"} : Has(b, f) /\ ~IsISO8601(b[f])}
    \cup {f \in {"notes"} : Has(b, f) /\ Len(b[f]) > MaxNotesLen}

\* A rule set for PUT that checks no name.
UpdateJobApplicationErrorsNoNames(body) ==
  LET b == SanitizeJob(body) IN
    {f \in {"status"} : Has(b, f) /\ b[f] \notin Statuses}
    \cup {f \in {"applied_date"} : Has(b, f) /\ ~IsISO8601(b[f])}
    \cup {f \in {"notes"} : Has(b, f) /\ Len(b[f]) > MaxNotesLen}

\* The fields whose rule fails, for PUT /api/jobs/:id: every field optional.
UpdateJobApplicationErrors(body) ==
  LET b == SanitizeJob(body) IN
    {f \in {"company_name", "role"} :
       Has(b, f) /\ (b[f] = <<>> \/ Len(b[f]) > MaxNameLen)}
    \cup {f \in {"status"} : Has(b, f) /\ b[f] \notin Statuses}
    \cup {f \in {"applied_date"} : Has(b, f) /\ ~IsISO8601(b[f])}
    \cup {f \in {"notes"} : Has(b, f) /\ Len(b[f]) > MaxNotesLen}

\* An id is a number: a positive one stands for a well-formed UUID, any
\* other for a string that isUUID() rejects.
IsUUID(id) == id >= 1

\* validateUUID: the fields whose rule fails.
UUIDErrors(id) == IF IsUUID(id) THEN {} ELSE {"id"}

\* handleValidationErrors: 400 with the list of failing fields.
ValidationFailed(op, req, fields) ==
  [op |-> op, req |-> req, success |-> FALSE, status |-> 400,
   code |-> "VALIDATION_ERROR",
   message |-> "Validation failed", data |-> <<>>, errors |-> fields]

\* ------------------------------------------------------- errorHandler.js

\* A development mode that is every mode but production.
IsDevelopmentUnlessProduction ==
  IF Has(env, "NODE_ENV") THEN env.NODE_ENV # "production" ELSE TRUE

\* process.env.NODE_ENV === 'development'
IsDevelopment == Has(env, "NODE_ENV") /\ env.NODE_ENV = "development"

\* new APIError(message, statusCode, code): an Error with its message and
\* stack, and the two properties the constructor sets.
NewAPIError(message, statusCode, code) ==
  [message |-> message, statusCode |-> statusCode, code |-> code, stack |-> "stack"]

\* err.statusCode || 500 and err.code || 'INTERNAL_ERROR': a property that
\* is missing, 0 or '' is falsy.
StatusCodeOf(err) ==
  IF Has(err, "statusCode") THEN (IF err.statusCode = 0 THEN 500 ELSE err.statusCode)
  ELSE 500

ErrorCodeOf(err) ==
  IF Has(err, "code") THEN (IF err.code = "" THEN "INTERNAL_ERROR" ELSE err.code)
  ELSE "INTERNAL_ERROR"

\* globalErrorHandler: the response to the error passed to next(). Outside
\* development a 500 carries a fixed message instead of the error's own; in
\* development the stack goes with it.
GlobalErrorHandler(op, req, err) ==
  Merge([op |-> op, req |-> req, success |-> FALSE,
         status |-> StatusCodeOf(err), code |-> ErrorCodeOf(err),
         message |-> IF IsDevelopment THEN err.message
                     ELSE IF StatusCodeOf(err) = 500 THEN "Internal server error"
                     ELSE err.message,
         data |-> <<>>],
        IF IsDevelopment THEN [stack |-> err.stack] ELSE EmptyObj)

\* throw new APIError(message, statusCode, code), as globalErrorHandler
\* sends it.
APIError(op, req, message, statusCode, code) ==
  GlobalErrorHandler(op, req, NewAPIError(message, statusCode, code))

\* res.json({success: true, message, data})
Success(op, req, statusCode, message, data) ==
  [op |-> op, req |-> req, success |-> TRUE, status |-> statusCode, code |-> "OK",
   message |-> message, data |-> data]

\* ----------------------------------------------------- jobController.js

Request(caller, id, body) == [caller |-> caller, id |-> id, body |-> body]

\* The last of a chain: the route's handler.
HandlerOf(route) == route.chain[Len(route.chain)]

\* Handler h stands where the chain of its route has called the controller
\* `handler`, req.user set by verifyAuth.
AtController(h, handler) ==
  /\ inflight[h].op = "handler"
  /\ HandlerOf(inflight[h].req.route) = handler
  /\ Has(inflight[h].user, "id")

\* The request a controller reads is the one its chain has brought in h:
\* req.user.id, req.params.id, req.body (or req.query). In a specification
\* that starts at the controllers no chain has brought one, and the request
\* is any that verifyAuth lets through.
Brought(h, handler, caller, id, body) ==
  IF inflight[h].op = "handler"
    THEN /\ AtController(h, handler)
         /\ inflight[h].user.id = caller
         /\ inflight[h].req.id = id
         /\ inflight[h].req.body = body
    ELSE TRUE

\* The same for a controller that can be suspended: a request no chain
\* has brought takes a free handler.
Starts(h, handler, caller, id, body) ==
  IF inflight[h].op = "handler"
    THEN Brought(h, handler, caller, id, body)
    ELSE inflight[h] = Idle

\* The request as the controller has it: what it reads of it, with the
\* route and headers it came with when a chain has brought it.
RequestOf(h, caller, id, body) ==
  IF inflight[h].op = "handler"
    THEN Merge(inflight[h].req, Request(caller, id, body))
    ELSE Request(caller, id, body)

\* The handlers once a controller that was not suspended has answered: the
\* one whose chain brought the request is done.
Answered(h) ==
  IF inflight[h].op = "handler" THEN [inflight EXCEPT ![h] = Idle] ELSE inflight

\* A row whose owner is taken from the body when the body names one.
NewRowOwnerFromBody(userId, b) ==
  [id |-> nextId,
   user_id |-> IF Has(b, "user_id") THEN b.user_id ELSE userId,
   company_name |-> b.company_name,
   role |-> b.role,
   status |-> b.status,
   applied_date |-> IF Has(b, "applied_date") THEN b.applied_date ELSE DateOf(now),
   notes |-> IF Has(b, "notes") /\ b.notes # <<>> THEN b.notes ELSE <<>>,
   created_at |-> now,
   updated_at |-> now]

\* The row createJob inserts: the five fields it destructures from the body,
\* user_id from the verified caller, id and timestamps from the column defaults.
NewRow(userId, b) ==
  [id |-> nextId,
   user_id |-> userId,
   company_name |-> b.company_name,
   role |-> b.role,
   status |-> b.status,
   applied_date |-> IF Has(b, "applied_date") THEN b.applied_date ELSE DateOf(now),
   notes |-> IF Has(b, "notes") /\ b.notes # <<>> THEN b.notes ELSE <<>>,
   created_at |-> now,
   updated_at |-> now]

\* A not-found error that tells a row of another user from no row.
NotFoundOrForbidden(op, req) ==
  IF \E r \in store : r.id = req.id
    THEN APIError(op, req, "Forbidden", 403, "FORBIDDEN")
    ELSE APIError(op, req, "Job application not found", 404, "NOT_FOUND")

\* throw new APIError('Job application not found', 404, 'NOT_FOUND')
NotFound(op, req) == APIError(op, req, "Job application not found", 404, "NOT_FOUND")

\* A projection that leaves the notes column out.
SelectWithoutNotes(r) == [r EXCEPT !.notes = <<>>]

\* .select('*') / .select(): every column of the row.
SelectAll(r) == r

\* POST /api/jobs after verifyAuth: validateJobApplication, createJob.
\* `caller` is req.user.id, the user verifyAuth resolved the token to.
CreateJob(h, caller, body, fail) ==
  LET req == RequestOf(h, caller, 0, body)
      errs == JobApplicationErrors(body)
      row == NewRow(caller, SanitizeJob(body))
  IN
  /\ Brought(h, "createJob", caller, 0, body)
  /\ inflight' = Answered(h)
  /\ \/ /\ errs # {}
        /\ resp' = ValidationFailed("createJob", req, errs)
        /\ UNCHANGED <<store, accounts, nextId, now>>
     \/ /\ errs = {}
        /\ fail \/ ~TableOk(store \cup {row})
        /\ resp' = APIError("createJob", req, "Failed to create job application",
                            500, "CREATE_ERROR")
        /\ UNCHANGED <<store, accounts, nextId, now>>
     \/ /\ errs = {}
        /\ ~fail
        /\ TableOk(store \cup {row})
        /\ now < MaxNow
        /\ store' = store \cup {row}
        /\ nextId' = nextId + 1
        /\ now' = now + 1
        /\ resp' = Success("createJob", req, 201,
                           "Job application created successfully", <<row>>)
        /\ UNCHANGED accounts
  /\ UNCHANGED env

\* GET /api/jobs/:id after verifyAuth: validateUUID, getJobById.
GetJobById(h, caller, id, fail) ==
  LET req == RequestOf(h, caller, id, EmptyObj)
      r == Single(OwnedById(id, caller), fail)
  IN
  /\ Brought(h, "getJobById", caller, id, EmptyObj)
  /\ inflight' = Answered(h)
  /\ resp' =
       IF UUIDErrors(id) # {}
         THEN ValidationFailed("getJobById", req, UUIDErrors(id))
       ELSE IF r.error = "PGRST116"
         THEN NotFound("getJobById", req)
       ELSE IF r.error # "NONE"
         THEN APIError("getJobById", req, "Failed to fetch job application",
                       500, "FETCH_ERROR")
       ELSE Success("getJobById", req, 200, "", <<SelectAll(r.data[1])>>)
  /\ UNCHANGED <<store, accounts, nextId, now>>
  /\ UNCHANGED env

\* The check taken as failed only on an error other than "no row".
UpdateNotFoundOnStoreError(existing) == existing.error = "STORE"

\* if (fetchError || !existingJob)
UpdateNotFound(existing) == existing.error # "NONE" \/ existing.data = <<>>

\* PUT /api/jobs/:id after verifyAuth and up to its first await: validateUUID,
\* validateUpdateJobApplication and the existence-and-ownership query.
UpdateJobCheck(h, caller, id, body, fail) ==
  LET req == RequestOf(h, caller, id, body)
      errs == IF UUIDErrors(id) # {} THEN UUIDErrors(id)
              ELSE UpdateJobApplicationErrors(body)
      existing == Single(OwnedById(id, caller), fail)
  IN
  /\ Starts(h, "updateJob", caller, id, body)
  /\ \/ /\ errs # {}
        /\ resp' = ValidationFailed("updateJob", req, errs)
        /\ inflight' = [inflight EXCEPT ![h] = Idle]
     \/ /\ errs = {}
        /\ UpdateNotFound(existing)
        /\ resp' = NotFound("updateJob", req)
        /\ inflight' = [inflight EXCEPT ![h] = Idle]
     \/ /\ errs = {}
        /\ ~UpdateNotFound(existing)
        /\ inflight' = [inflight EXCEPT ![h] = [op |-> "updateJob", req |-> req]]
        /\ resp' = NoResp
  /\ UNCHANGED <<store, accounts, nextId, now>>
  /\ UNCHANGED env

\* An update that puts the notes back to the column default unless the
\* payload carries them.
UpdatedRowReplacing(r, payload) ==
  [Merge([r EXCEPT !.notes = <<>>], payload) EXCEPT !.updated_at = now]

\* The row an UPDATE ... SET payload produces: the payload's columns replace
\* the row's, then the BEFORE UPDATE trigger sets updated_at to NOW().
UpdatedRow(r, payload) ==
  [Merge(r, payload) EXCEPT !.updated_at = now]

\* PUT /api/jobs/:id from its second store call on: update({...updates,
\* updated_at}).eq('id', id).eq('user_id', userId).select().single().
UpdateJobWrite(h, fail) ==
  LET req == inflight[h].req
      updates == SanitizeJob(req.body)
      payload == Merge(updates, [updated_at |-> now])
      matched == OwnedById(req.id, req.caller)
      written == {UpdatedRow(r, payload) : r \in matched}
      table == (store \ matched) \cup written
      ok == ~fail /\ DOMAIN payload \subseteq Columns /\ TableOk(table)
      result == Single(written, FALSE)
  IN
  /\ inflight[h].op = "updateJob"
  /\ inflight' = [inflight EXCEPT ![h] = Idle]
  /\ \/ /\ ~ok \/ result.error # "NONE"
        /\ resp' = APIError("updateJob", req, "Failed to update job application",
                            500, "UPDATE_ERROR")
        /\ UNCHANGED <<store, now>>
     \/ /\ ok
        /\ result.error = "NONE"
        /\ now < MaxNow
        /\ store' = table
        /\ now' = now + 1
        /\ resp' = Success("updateJob", req, 200,
                           "Job application updated successfully", result.data)
  /\ UNCHANGED <<accounts, nextId>>
  /\ UNCHANGED env

\* if (fetchError || !existingJob)
DeleteNotFound(existing) == existing.error # "NONE" \/ existing.data = <<>>

\* DELETE /api/jobs/:id up to its first await.
DeleteJobCheck(h, caller, id, fail) ==
  LET req == RequestOf(h, caller, id, EmptyObj)
      existing == Single(OwnedById(id, caller), fail)
  IN
  /\ Starts(h, "deleteJob", caller, id, EmptyObj)
  /\ \/ /\ UUIDErrors(id) # {}
        /\ resp' = ValidationFailed("deleteJob", req, UUIDErrors(id))
        /\ inflight' = [inflight EXCEPT ![h] = Idle]
     \/ /\ UUIDErrors(id) = {}
        /\ DeleteNotFound(existing)
        /\ resp' = NotFound("deleteJob", req)
        /\ inflight' = [inflight EXCEPT ![h] = Idle]
     \/ /\ UUIDErrors(id) = {}
        /\ ~DeleteNotFound(existing)
        /\ inflight' = [inflight EXCEPT ![h] = [op |-> "deleteJob", req |-> req]]
        /\ resp' = NoResp
  /\ UNCHANGED <<store, accounts, nextId, now>>
  /\ UNCHANGED env

\* DELETE /api/jobs/:id from its second store call on.
DeleteJobWrite(h, fail) ==
  LET req == inflight[h].req IN
  /\ inflight[h].op = "deleteJob"
  /\ inflight' = [inflight EXCEPT ![h] = Idle]
  /\ \/ /\ fail
        /\ resp' = APIError("deleteJob", req, "Failed to delete job application",
                            500, "DELETE_ERROR")
        /\ UNCHANGED store
     \/ /\ ~fail
        /\ store' = store \ OwnedById(req.id, req.caller)
        /\ resp' = Success("deleteJob", req, 200,
                           "Job application deleted successfully", <<>>)
  /\ UNCHANGED <<accounts, nextId, now>>
  /\ UNCHANGED env

\* validateQueryParams: the fields of the query string whose rule fails.
\* limit and offset are integers here; parseInt is the identity on them.
MaxSearchLen == 100
MaxLimit == 100

SanitizeQuery(q) ==
  [f \in DOMAIN q |-> IF f = "search" THEN Trim(q[f]) ELSE q[f]]

QueryErrors(q) ==
  LET s == SanitizeQuery(q) IN
    {f \in {"status"} : Has(s, f) /\ s[f] \notin Statuses}
    \cup {f \in {"search"} : Has(s, f) /\ Len(s[f]) > MaxSearchLen}
    \cup {f \in {"limit"} : Has(s, f) /\ (s[f] < 1 \/ s[f] > MaxLimit)}
    \cup {f \in {"offset"} : Has(s, f) /\ s[f] < 0}

DefaultLimit == 50
DefaultOffset == 0

LimitOf(q) == IF Has(q, "limit") THEN q.limit ELSE DefaultLimit
OffsetOf(q) == IF Has(q, "offset") THEN q.offset ELSE DefaultOffset

\* if (status) / if (search): the filter is applied when the value is truthy.
HasStatus(q) == Has(q, "status")
HasSearch(q) == Has(q, "search") /\ q.search # <<>>

\* `company_name.ilike.%${search}%,role.ilike.%${search}%`
SearchPattern(search) == <<"%">> \o search \o <<"%">>

\* The same selection without .eq('user_id', userId).
MatchingAnyOwner(userId, q) ==
  {r \in store :
     /\ HasStatus(q) => r.status = q.status
     /\ HasSearch(q) =>
          \/ ILike(r.company_name, SearchPattern(q.search))
          \/ ILike(r.role, SearchPattern(q.search))}

\* The rows the query of getAllJobs selects, before ordering and range.
Matching(userId, q) ==
  {r \in store :
     /\ r.user_id = userId
     /\ HasStatus(q) => r.status = q.status
     /\ HasSearch(q) =>
          \/ ILike(r.company_name, SearchPattern(q.search))
          \/ ILike(r.role, SearchPattern(q.search))}

\* ORDER BY col DESC: the orders the store can return a set of rows in (rows
\* equal on col come in any order).
RECURSIVE OrderedDesc(_, _)
OrderedDesc(rows, col) ==
  IF rows = {} THEN {<<>>}
  ELSE UNION {{<<r>> \o rest : rest \in OrderedDesc(rows \ {r}, col)} :
                r \in {x \in rows : \A y \in rows : x[col] >= y[col]}}

\* .range(from, to): rows from..to of the order, counted from 0, both included.
Range(o, from, to) == SubSeq(o, from + 1, Min(to + 1, Len(o)))

\* The answer of the store to .range(from, ..) with count: 'exact': a range
\* that starts past the number of rows that match is an error (416,
\* PGRST103), one that starts at it is an empty page.
RangeNotSatisfiable(from, count) == from > count

\* GET /api/jobs after verifyAuth: validateQueryParams, getAllJobs.
GetAllJobs(h, caller, query, fail) ==
  LET req == RequestOf(h, caller, 0, query)
      errs == QueryErrors(query)
      q == SanitizeQuery(query)
      rows == Matching(caller, q)
      count == Cardinality(rows)
  IN
  /\ Brought(h, "getAllJobs", caller, 0, query)
  /\ inflight' = Answered(h)
  /\ \/ /\ errs # {}
        /\ resp' = ValidationFailed("getAllJobs", req, errs)
     \/ /\ errs = {}
        /\ fail \/ RangeNotSatisfiable(OffsetOf(q), count)
        /\ resp' = APIError("getAllJobs", req, "Failed to fetch job applications",
                            500, "FETCH_ERROR")
     \/ /\ errs = {}
        /\ ~fail
        /\ ~RangeNotSatisfiable(OffsetOf(q), count)
        /\ \E o \in OrderedDesc(rows, "applied_date") :
             LET data == Range(o, OffsetOf(q), OffsetOf(q) + LimitOf(q) - 1) IN
             resp' = Merge(Success("getAllJobs", req, 200, "", data),
                           [pagination |->
                              [total |-> count,
                               limit |-> LimitOf(q),
                               offset |-> OffsetOf(q),
                               hasMore |-> OffsetOf(q) + Len(data) < count]])
  /\ UNCHANGED <<store, accounts, nextId, now>>
  /\ UNCHANGED env

\* A limit that lets one more row through.
RecentLimitOneMore == 5 + 1

\* .limit(5)
RecentLimit == 5

\* Statistics whose offer count filters on the wrong status.
StatsOfOfferMiscounted(rows) ==
  [total |-> Cardinality(rows),
   applied |-> Cardinality({r \in rows : r.status = "Applied"}),
   interview |-> Cardinality({r \in rows : r.status = "Interview"}),
   rejected |-> Cardinality({r \in rows : r.status = "Rejected"}),
   offer |-> Cardinality({r \in rows : r.status = "Rejected"})]

\* The statistics getJobStats computes from the rows of its first query.
StatsOf(rows) ==
  [total |-> Cardinality(rows),
   applied |-> Cardinality({r \in rows : r.status = "Applied"}),
   interview |-> Cardinality({r \in rows : r.status = "Interview"}),
   rejected |-> Cardinality({r \in rows : r.status = "Rejected"}),
   offer |-> Cardinality({r \in rows : r.status = "Offer"})]

\* GET /api/jobs/stats up to its second await: the status query and the
\* counts.
GetJobStatsCount(h, caller, fail) ==
  LET req == RequestOf(h, caller, 0, EmptyObj)
      data == {r \in store : r.user_id = caller}
  IN
  /\ Starts(h, "getJobStats", caller, 0, EmptyObj)
  /\ \/ /\ fail
        /\ resp' = APIError("getJobStats", req, "Failed to fetch statistics",
                            500, "STATS_ERROR")
        /\ inflight' = [inflight EXCEPT ![h] = Idle]
     \/ /\ ~fail
        /\ inflight' = [inflight EXCEPT ![h] =
                          [op |-> "getJobStats", req |-> req, stats |-> StatsOf(data)]]
        /\ resp' = NoResp
  /\ UNCHANGED <<store, accounts, nextId, now>>
  /\ UNCHANGED env

\* GET /api/jobs/stats from the query of the recent rows on; its error is
\* logged and the list left empty.
GetJobStatsRecent(h, fail) ==
  LET req == inflight[h].req
      rows == {r \in store : r.user_id = req.caller}
  IN
  /\ inflight[h].op = "getJobStats"
  /\ inflight' = [inflight EXCEPT ![h] = Idle]
  /\ \E o \in OrderedDesc(rows, "created_at") :
       resp' = Merge(Success("getJobStats", req, 200, "",
                             IF fail THEN <<>> ELSE Range(o, 0, RecentLimit - 1)),
                     [stats |-> inflight[h].stats])
  /\ UNCHANGED <<store, accounts, nextId, now>>
  /\ UNCHANGED env

\* ------------------- src/index.js: the middleware ahead of the routers

\* express.json({ limit: '10mb' }), express.urlencoded({ .., limit: '10mb' })
BodyLimit == 10

\* req.body is the object the body parsers made of the body. A body they
\* make no object of is kept as it was sent: its text and its size in mb.
\* No parsed body of the model has a field of these names.
RawBody(text, mb) == [raw |-> text, mb |-> mb]

\* What a middleware does with a request: it calls next(), it calls
\* next(err), or it ends the request with an answer of its own.
CallsNext == [kind |-> "next"]
NextErr(by, err) == [kind |-> "error", by |-> by, err |-> err]
Ends(rsp) == [kind |-> "end", resp |-> rsp]

\* The message of the SyntaxError JSON.parse throws on a text that is no
\* JSON. The text is the runtime's own and differs between the versions of
\* Node the server runs on (18 and later): each is a possible outcome.
\* Given for the texts the requests of the model come with.
SyntaxErrorMessages(text) ==
  CASE text = <<"{">> ->
         {"Unexpected end of JSON input",
          "Expected property name or '}' in JSON at position 1",
          "Expected property name or '}' in JSON at position 1 (line 1 column 2)"}
    [] text = <<"{", "x">> ->
         {"Unexpected token x in JSON at position 1",
          "Expected property name or '}' in JSON at position 1",
          "Expected property name or '}' in JSON at position 1 (line 1 column 2)"}

\* express.json: a body over the limit is refused before it is read, a body
\* JSON.parse throws on is refused after, under the message JSON.parse gave;
\* both with an http-errors Error that has a statusCode and no code. The
\* outcomes the parser can have with the body.
BodyParser(body) ==
  IF ~Has(body, "raw") THEN {CallsNext}
  ELSE IF body.mb > BodyLimit
    THEN {NextErr("express.json",
                  [message |-> "request entity too large", statusCode |-> 413,
                   type |-> "entity.too.large", stack |-> "stack"])}
  ELSE {NextErr("express.json",
                [message |-> said, statusCode |-> 400,
                 type |-> "entity.parse.failed", stack |-> "stack"]) :
          said \in SyntaxErrorMessages(body.raw)}

\* allowedOrigins: the two local ones and FRONTEND_URL, .filter(Boolean).
AllowedOrigins ==
  {"http://localhost:5173", "http://localhost:3000"} \cup
    (IF Has(env, "FRONTEND_URL")
       THEN (IF env.FRONTEND_URL = "" THEN {} ELSE {env.FRONTEND_URL})
       ELSE {})

\* The origin callback of cors: no Origin header, or an empty one, is
\* allowed; so is a listed origin, and every origin in development.
OriginAllowed(headers) ==
  IF ~Has(headers, "origin") THEN TRUE
  ELSE IF headers.origin = "" THEN TRUE
  ELSE \/ headers.origin \in AllowedOrigins
       \/ (Has(env, "NODE_ENV") /\ env.NODE_ENV = "development")

\* The answer of cors to a preflight request: 204 and no body.
Preflight(req) == [op |-> "cors", req |-> req, status |-> 204]

\* cors: callback(new Error('Not allowed by CORS')) goes to next(err); an
\* OPTIONS request from an allowed origin is ended here (preflightContinue
\* is off); every other request goes on.
Cors(req) ==
  IF ~OriginAllowed(req.headers)
    THEN NextErr("cors", [message |-> "Not allowed by CORS", stack |-> "stack"])
  ELSE IF req.route.method = "OPTIONS" THEN Ends(Preflight(req))
  ELSE CallsNext

\* app.use(express.json), app.use(express.urlencoded), app.use(cors), in
\* this order, ahead of every route. The request logger of development
\* mode, which follows them, only logs. The outcomes they can have with the
\* request.
AppMiddleware(req) ==
  IF \A out \in BodyParser(req.body) : out.kind = "next"
    THEN {Cors(req)}
    ELSE BodyParser(req.body)

\* The request goes on to the routers.
PassesAppMiddleware(req) == \A out \in AppMiddleware(req) : out.kind = "next"

\* ------------------------------------------------------------- auth.js

\* The bearer token of each user's session and the email of each account.
TokenOf == [u \in Users |-> IF u = "A" THEN "tA" ELSE "tB"]
EmailOf == [u \in Users |-> IF u = "A" THEN "a@x" ELSE "b@x"]

\* A request as the middleware chain sees it: the route it was matched to,
\* its headers, the :id of its path and its body (or query string).
ChainRequest(route, headers, id, body) ==
  [route |-> route, headers |-> headers, id |-> id, body |-> body]

\* if (!authHeader): no Authorization header, or an empty one.
NoAuthHeader(headers) ==
  IF Has(headers, "authorization") THEN headers.authorization = <<>> ELSE TRUE

\* A format check that looks at the first part only.
IsBearerFirstPartOnly(parts) == parts[1] = <<"Bearer">>

\* !(parts.length !== 2 || parts[0] !== 'Bearer'). A header is a sequence
\* of words and blanks, each word one character here.
IsBearer(parts) == Len(parts) = 2 /\ parts[1] = <<"Bearer">>

\* res.status(401).json({success: false, message, code})
AuthRejected(req, statusCode, message, code) ==
  [op |-> "verifyAuth", req |-> req, success |-> FALSE, status |-> statusCode,
   code |-> code,
   message |-> message, data |-> <<>>]

\* verifyAuth up to the await of supabaseAuth.auth.getUser(token), for a
\* request that the middleware ahead of the routers let through, to a route
\* that has verifyAuth first in its chain.
VerifyAuth(h, req) ==
  LET parts == Split(req.headers.authorization, " ") IN
  /\ inflight[h] = Idle
  /\ PassesAppMiddleware(req)
  /\ req.route.chain[1] = "verifyAuth"
  /\ \/ /\ NoAuthHeader(req.headers)
        /\ resp' = AuthRejected(req, 401,
                      "Access denied. No authorization header provided.",
                      "NO_AUTH_HEADER")
        /\ UNCHANGED inflight
     \/ /\ ~NoAuthHeader(req.headers)
        /\ ~IsBearer(parts)
        /\ resp' = AuthRejected(req, 401,
                      "Invalid authorization format. Expected: Bearer <token>",
                      "INVALID_AUTH_FORMAT")
        /\ UNCHANGED inflight
     \/ /\ ~NoAuthHeader(req.headers)
        /\ IsBearer(parts)
        /\ inflight' = [inflight EXCEPT ![h] =
                          [op |-> "verifyAuth", req |-> req, token |-> parts[2],
                           settled |-> FALSE]]
        /\ resp' = NoResp
  /\ UNCHANGED <<store, accounts, nextId, now, env>>

\* The answer of the identity store to getUser(token): the user whose
\* session the token is of, if the account exists, or an error; `fault` is
\* a failure of the identity store: an error answered for any token, an
\* answer without user and without error, or an exception thrown.
GetUser(token, fault) ==
  LET users == {u \in accounts : token = <<TokenOf[u]>>} IN
  IF fault = "throw" THEN [thrown |-> TRUE]
  ELSE IF fault = "nouser" THEN [thrown |-> FALSE, error |-> FALSE, user |-> <<>>]
  ELSE IF fault = "error" \/ users = {}
    THEN [thrown |-> FALSE, error |-> TRUE, user |-> <<>>]
  ELSE LET u == CHOOSE u \in users : TRUE IN
       [thrown |-> FALSE, error |-> FALSE,
        user |-> <<[id |-> u, email |-> EmailOf[u]]>>]

\* supabaseAuth.auth.getUser(token) settles.
GetUserSettles(h, fault) ==
  /\ inflight[h].op = "verifyAuth"
  /\ ~inflight[h].settled
  /\ inflight' = [inflight EXCEPT ![h] =
                    Merge(inflight[h],
                          [settled |-> TRUE, answer |-> GetUser(inflight[h].token, fault)])]
  /\ resp' = NoResp
  /\ UNCHANGED <<store, accounts, nextId, now, env>>

\* verifyAuth from the settled call on: 401, or req.user and next(); an
\* exception is answered 500 by the catch block.
VerifyAuthResume(h) ==
  LET req == inflight[h].req
      answer == inflight[h].answer
  IN
  /\ inflight[h].op = "verifyAuth"
  /\ inflight[h].settled
  /\ \/ /\ answer.thrown
        /\ resp' = AuthRejected(req, 500, "Authentication error. Please try again.",
                                "AUTH_ERROR")
        /\ inflight' = [inflight EXCEPT ![h] = Idle]
     \/ /\ ~answer.thrown
        /\ answer.error \/ answer.user = <<>>
        /\ resp' = AuthRejected(req, 401,
                      "Invalid or expired token. Please sign in again.", "INVALID_TOKEN")
        /\ inflight' = [inflight EXCEPT ![h] = Idle]
     \/ /\ ~answer.thrown
        /\ ~(answer.error \/ answer.user = <<>>)
        /\ inflight' = [inflight EXCEPT ![h] =
                          [op |-> "next", req |-> req,
                           user |-> [id |-> answer.user[1].id,
                                     email |-> answer.user[1].email,
                                     token |-> inflight[h].token],
                           pos |-> 2]]
        /\ resp' = NoResp
  /\ UNCHANGED <<store, accounts, nextId, now, env>>

\* ------------------------------------------- openai.js, aiController.js

\* const apiKey = process.env.OPENAI_API_KEY (a missing variable and an empty
\* one are both falsy).
ApiKey == IF Has(env, "OPENAI_API_KEY") THEN env.OPENAI_API_KEY ELSE <<>>

\* openai = apiKey ? new OpenAI({ apiKey }) : null
OpenaiClient == ApiKey # <<>>

\* A check that takes any key for a usable one.
IsAIAvailableAnyKey == OpenaiClient /\ ApiKey # <<>>

\* isAIAvailable(): !!openai && !!apiKey && apiKey.startsWith('sk-')
IsAIAvailable ==
  OpenaiClient /\ ApiKey # <<>> /\ StartsWith(ApiKey, <<"s", "k", "-">>)

EmailTypes == {"cold", "followup", "referral"}

\* The salutation the cold and follow-up templates open with.
StartOfLetter == "Dear Hiring Manager,"

\* The sanitizers of validateEmailGeneration: .trim() on every text field.
SanitizeEmail(body) ==
  [f \in DOMAIN body |->
     IF f \in {"company_name", "role", "recipient_name", "your_name"}
       THEN Trim(body[f]) ELSE body[f]]

\* validateEmailGeneration: the fields whose rule fails.
EmailGenerationErrors(body) ==
  LET b == SanitizeEmail(body) IN
    {f \in {"type"} : ~Has(b, f) \/ b[f] \notin EmailTypes}
    \cup {f \in {"company_name", "role", "your_name"} : ~Has(b, f) \/ b[f] = <<>>}

\* emailTemplates[type](company, role, yourName, recipientName): the fixed
\* text of each template is kept as one piece between the parameters;
\* recipientName defaults to 'there' when it is undefined.
EmailTemplate(type, b) ==
  LET company == b.company_name
      role == b.role
      yourName == b.your_name
      recipientName == IF Has(b, "recipient_name") THEN b.recipient_name ELSE <<"there">>
  IN
  IF type = "cold" THEN
    [subject |-> <<"Application for ">> \o role \o <<" at ">> \o company,
     body |-> <<StartOfLetter, "My name is ">> \o yourName
              \o <<", interest in the ">> \o role \o <<" position at ">> \o company
              \o <<". I have been following ">> \o company
              \o <<"'s work. Best regards, ">> \o yourName]
  ELSE IF type = "followup" THEN
    [subject |-> <<"Follow-up: ">> \o role \o <<" Application at ">> \o company,
     body |-> <<StartOfLetter, "follow up on my application for the ">> \o role
              \o <<" position at ">> \o company
              \o <<" that I submitted recently. Best regards, ">> \o yourName]
  ELSE
    [subject |-> <<"Referral Request: ">> \o role \o <<" at ">> \o company,
     body |-> <<"Hi ">> \o recipientName \o <<", I noticed that ">> \o company
              \o <<" has an opening for a ">> \o role
              \o <<" position. Best regards, ">> \o yourName]

\* The prompt of each type: who writes, for which position, to whom
\* (recipient_name || 'Hiring Manager').
Prompt(type, b) ==
  [type |-> type, your_name |-> b.your_name, role |-> b.role,
   company_name |-> b.company_name,
   recipient |-> IF Has(b, "recipient_name") /\ b.recipient_name # <<>>
                   THEN b.recipient_name ELSE <<"Hiring Manager">>]

\* The fallback without its note.
UnavailableFallbackWithoutNote(template) ==
  Merge(template, [generated_by |-> "template"])

\* The data sent when isAIAvailable() is false.
UnavailableFallback(template) ==
  Merge(template,
        [generated_by |-> "template",
         note |-> "AI generation is currently unavailable. Using template instead."])

\* The data sent from the catch block.
ErrorFallback(template) ==
  Merge(template,
        [generated_by |-> "template",
         note |-> "AI generation encountered an error. Using template instead."])

\* POST /api/ai/generate-email after verifyAuth and up to the await of the
\* external call: validateEmailGeneration, the availability check, the prompt.
GenerateEmail(h, caller, body) ==
  LET req == RequestOf(h, caller, 0, body)
      errs == EmailGenerationErrors(body)
      b == SanitizeEmail(body)
  IN
  /\ Starts(h, "generateEmail", caller, 0, body)
  /\ \/ /\ errs # {}
        /\ resp' = ValidationFailed("generateEmail", req, errs)
        /\ inflight' = [inflight EXCEPT ![h] = Idle]
     \/ /\ errs = {}
        /\ ~IsAIAvailable
        /\ resp' = Success("generateEmail", req, 200, "",
                           UnavailableFallback(EmailTemplate(b.type, b)))
        /\ inflight' = [inflight EXCEPT ![h] = Idle]
     \/ /\ errs = {}
        /\ IsAIAvailable
        /\ inflight' = [inflight EXCEPT ![h] =
                          [op |-> "generateEmail", req |-> req,
                           prompt |-> Prompt(b.type, b), settled |-> FALSE]]
        /\ resp' = NoResp
  /\ UNCHANGED <<store, accounts, nextId, now, env>>

\* openai.chat.completions.create(..) settles: it throws (quota, network), or
\* returns a completion with or without content.
OpenAISettles(h, completion) ==
  /\ inflight[h].op = "generateEmail"
  /\ ~inflight[h].settled
  /\ inflight' = [inflight EXCEPT ![h] =
                    Merge(inflight[h], [settled |-> TRUE, completion |-> completion])]
  /\ resp' = NoResp
  /\ UNCHANGED <<store, accounts, nextId, now, env>>

\* completion.choices[0]?.message?.content?.trim(), the empty text standing
\* for undefined as well (both are falsy).
GeneratedContent(completion) ==
  IF Has(completion, "content") THEN Trim(completion.content) ELSE <<>>

\* A failure test that lets an empty completion through.
CompletionFailedOnlyThrown(completion) == completion.thrown

\* The try block leaves for the catch block: the call threw, or
\* if (!generatedContent) throw new Error('Empty response from OpenAI').
CompletionFailed(completion) ==
  completion.thrown \/ GeneratedContent(completion) = <<>>

\* The index of the first line that starts with "subject:" in any letter
\* case, 0 if there is none. "Subject:" is one character here.
SubjectLine(lines) ==
  IF \E i \in DOMAIN lines : lines[i] # <<>> /\ Lower(lines[i][1]) = "subject:"
    THEN CHOOSE i \in DOMAIN lines :
           /\ lines[i] # <<>> /\ Lower(lines[i][1]) = "subject:"
           /\ \A j \in 1..(i - 1) : lines[j] = <<>> \/ Lower(lines[j][1]) # "subject:"
    ELSE 0

\* The subject and body parsed from the generated text.
ParseEmail(generatedContent, b) ==
  LET lines == Split(generatedContent, "\n")
      i == SubjectLine(lines)
      subject == IF i = 0 THEN <<>> ELSE Trim(TrimLeft(Tail(lines[i])))
      bodyStartIndex == IF i = 0 THEN 0 ELSE (i - 1) + 2
      body == Trim(Join(SubSeq(lines, bodyStartIndex + 1, Len(lines)), "\n"))
  IN
  [subject |-> IF subject # <<>> THEN subject
               ELSE <<"Application for ">> \o b.role \o <<" at ">> \o b.company_name,
   body |-> IF body # <<>> THEN body ELSE generatedContent,
   generated_by |-> "ai"]

\* POST /api/ai/generate-email from the settled call on.
GenerateEmailResume(h) ==
  LET req == inflight[h].req
      b == SanitizeEmail(req.body)
      completion == inflight[h].completion
  IN
  /\ inflight[h].op = "generateEmail"
  /\ inflight[h].settled
  /\ inflight' = [inflight EXCEPT ![h] = Idle]
  /\ resp' = Success("generateEmail", req, 200, "",
                     IF CompletionFailed(completion)
                       THEN ErrorFallback(EmailTemplate(b.type, b))
                       ELSE ParseEmail(GeneratedContent(completion), b))
  /\ UNCHANGED <<store, accounts, nextId, now, env>>

\* ---------------------------------------------------- authController.js

\* DELETE /api/auth/account up to its second await: the caller's rows go.
\* `deleted` is what the DELETE removed (the handler does not look at it).
DeleteAccountJobs(h, caller, fail) ==
  LET req == RequestOf(h, caller, 0, EmptyObj) IN
  /\ Starts(h, "deleteAccount", caller, 0, EmptyObj)
  /\ \/ /\ fail
        /\ resp' = APIError("deleteAccount", req, "Failed to delete user data",
                            500, "DELETE_ERROR")
        /\ UNCHANGED store
        /\ inflight' = [inflight EXCEPT ![h] = Idle]
     \/ /\ ~fail
        /\ store' = {r \in store : r.user_id # caller}
        /\ inflight' = [inflight EXCEPT ![h] =
                          [op |-> "deleteAccount", req |-> req,
                           deleted |-> {r \in store : r.user_id = caller}]]
        /\ resp' = NoResp
  /\ UNCHANGED <<accounts, nextId, now>>
  /\ UNCHANGED env

\* The same step over a table whose foreign key does not cascade.
DeleteAccountUserNoCascade(h, fail) ==
  LET req == inflight[h].req IN
  /\ inflight[h].op = "deleteAccount"
  /\ inflight' = [inflight EXCEPT ![h] = Idle]
  /\ \/ /\ fail \/ req.caller \notin accounts
        /\ resp' = APIError("deleteAccount", req, "Failed to delete user account",
                            500, "DELETE_ERROR")
        /\ UNCHANGED <<store, accounts>>
     \/ /\ ~fail
        /\ req.caller \in accounts
        /\ accounts' = accounts \ {req.caller}
        /\ store' = store
        /\ resp' = Success("deleteAccount", req, 200, "Account deleted successfully", <<>>)
  /\ UNCHANGED <<nextId, now>>
  /\ UNCHANGED env

\* DELETE /api/auth/account from auth.admin.deleteUser on; the rows that
\* reference the user go with it (ON DELETE CASCADE).
DeleteAccountUser(h, fail) ==
  LET req == inflight[h].req IN
  /\ inflight[h].op = "deleteAccount"
  /\ inflight' = [inflight EXCEPT ![h] = Idle]
  /\ \/ /\ fail \/ req.caller \notin accounts
        /\ resp' = APIError("deleteAccount", req, "Failed to delete user account",
                            500, "DELETE_ERROR")
        /\ UNCHANGED <<store, accounts>>
     \/ /\ ~fail
        /\ req.caller \in accounts
        /\ accounts' = accounts \ {req.caller}
        /\ store' = {r \in store : r.user_id # req.caller}
        /\ resp' = Success("deleteAccount", req, 200, "Account deleted successfully", <<>>)
  /\ UNCHANGED <<nextId, now>>
  /\ UNCHANGED env

\* The record of a user in the identity store: id and email, and the three
\* timestamps the profile shows (each stands as 0 here).
AuthUser(u) ==
  [id |-> u, email |-> EmailOf[u], created_at |-> 0, last_sign_in_at |-> 0,
   email_confirmed_at |-> 0]

\* GET /api/auth/me: auth.admin.getUserById(req.user.id), 404 on an error or
\* no user.
GetCurrentUser(h, fail) ==
  LET userId == inflight[h].user.id
      req == RequestOf(h, userId, inflight[h].req.id, inflight[h].req.body)
  IN
  /\ AtController(h, "getCurrentUser")
  /\ inflight' = [inflight EXCEPT ![h] = Idle]
  /\ resp' = IF fail \/ userId \notin accounts
               THEN APIError("getCurrentUser", req, "User not found", 404, "USER_NOT_FOUND")
               ELSE Success("getCurrentUser", req, 200, "", AuthUser(userId))
  /\ UNCHANGED <<store, accounts, nextId, now, env>>

\* GET /api/auth/verify: the identity verifyAuth attached.
VerifyToken(h) ==
  LET user == inflight[h].user
      req == RequestOf(h, user.id, inflight[h].req.id, inflight[h].req.body)
  IN
  /\ AtController(h, "verifyToken")
  /\ inflight' = [inflight EXCEPT ![h] = Idle]
  /\ resp' = Success("verifyToken", req, 200, "Token is valid",
                     [userId |-> user.id, email |-> user.email])
  /\ UNCHANGED <<store, accounts, nextId, now, env>>

\* GET /api/ai/status: isAIAvailable() and the message that goes with it.
GetAIStatus(h) ==
  LET req == RequestOf(h, inflight[h].user.id, inflight[h].req.id, inflight[h].req.body)
      available == IsAIAvailable
  IN
  /\ AtController(h, "getAIStatus")
  /\ inflight' = [inflight EXCEPT ![h] = Idle]
  /\ resp' = Success("getAIStatus", req, 200, "",
                     [available |-> available,
                      message |-> IF available
                                    THEN "AI email generation is available"
                                    ELSE "AI email generation is unavailable - templates will be used"])
  /\ UNCHANGED <<store, accounts, nextId, now, env>>

\* ------------------------------------------- routes/*.js, src/index.js

\* A route: method, full path, and the chain of middleware that ends with
\* its handler.
Route(method, path, chain) == [method |-> method, path |-> path, chain |-> chain]

\* router.use(mw): mw runs first for every request that enters the router,
\* those that match none of its routes included.
Use(mw, routes) == {[r EXCEPT !.chain = <<mw>> \o r.chain] : r \in routes}

\* A request that matches no route ends at notFoundHandler.
Unmatched(method, path) == Route(method, path, <<"notFoundHandler">>)

\* authRoutes with the account deletion left unprotected.
AuthRoutesAccountPublic ==
  {Route("GET", "/api/auth/me", <<"verifyAuth", "getCurrentUser">>),
   Route("GET", "/api/auth/verify", <<"verifyAuth", "verifyToken">>),
   Route("DELETE", "/api/auth/account", <<"deleteAccount">>)}

\* authRoutes.js, mounted at /api/auth.
AuthRoutes ==
  {Route("GET", "/api/auth/me", <<"verifyAuth", "getCurrentUser">>),
   Route("GET", "/api/auth/verify", <<"verifyAuth", "verifyToken">>),
   Route("DELETE", "/api/auth/account", <<"verifyAuth", "deleteAccount">>),
   Unmatched("GET", "/api/auth/nothing")}

\* jobRoutes.js, mounted at /api/jobs.
JobRoutes ==
  Use("verifyAuth",
      {Route("GET", "/api/jobs", <<"validateQueryParams", "getAllJobs">>),
       Route("GET", "/api/jobs/stats", <<"getJobStats">>),
       Route("GET", "/api/jobs/:id", <<"validateUUID", "getJobById">>),
       Route("POST", "/api/jobs", <<"validateJobApplication", "createJob">>),
       Route("PUT", "/api/jobs/:id",
             <<"validateUUID", "validateUpdateJobApplication", "updateJob">>),
       Route("DELETE", "/api/jobs/:id", <<"validateUUID", "deleteJob">>),
       Unmatched("PATCH", "/api/jobs")})

\* aiRoutes.js, mounted at /api/ai.
AIRoutes ==
  Use("verifyAuth",
      {Route("GET", "/api/ai/status", <<"getAIStatus">>),
       Route("POST", "/api/ai/generate-email",
             <<"validateEmailGeneration", "generateEmail">>),
       Unmatched("GET", "/api/ai/nothing")})

\* routes/index.js: the health check and the three routers.
ApiRoutes ==
  {Route("GET", "/api/health", <<"health">>)} \cup AuthRoutes \cup JobRoutes \cup AIRoutes

\* src/index.js: the routes under /api, the root endpoint, notFoundHandler.
AppRoutes ==
  ApiRoutes \cup {Route("GET", "/", <<"root">>), Unmatched("GET", "/nothing")}

\* The validators with validateUUID letting every id through.
ValidatorErrorsButUUID(mw, req) ==
  IF mw = "validateJobApplication" THEN JobApplicationErrors(req.body)
  ELSE IF mw = "validateUpdateJobApplication" THEN UpdateJobApplicationErrors(req.body)
  ELSE IF mw = "validateQueryParams" THEN QueryErrors(req.body)
  ELSE IF mw = "validateEmailGeneration" THEN EmailGenerationErrors(req.body)
  ELSE {}

\* The fields a validator of the chain rejects in the request.
ValidatorErrors(mw, req) ==
  IF mw = "validateUUID" THEN UUIDErrors(req.id)
  ELSE IF mw = "validateJobApplication" THEN JobApplicationErrors(req.body)
  ELSE IF mw = "validateUpdateJobApplication" THEN UpdateJobApplicationErrors(req.body)
  ELSE IF mw = "validateQueryParams" THEN QueryErrors(req.body)
  ELSE IF mw = "validateEmailGeneration" THEN EmailGenerationErrors(req.body)
  ELSE {}

\* The handlers written in the route tables.
InlineHandlers == {"health", "root", "notFoundHandler"}

\* router.get('/health', ..)
Health(req) == Success("health", req, 200, "Job Tracker API is running", <<>>)

\* app.get('/', ..)
Root(req) == Success("root", req, 200, "Welcome to Job Tracker API", <<>>)

\* notFoundHandler passes an APIError that names req.originalUrl to
\* globalErrorHandler.
NotFoundHandler(req) ==
  APIError("notFoundHandler", req, "Route not found: " \o req.route.path,
           404, "ROUTE_NOT_FOUND")

\* What each of them answers at once.
InlineHandler(handler, req) ==
  IF handler = "health" THEN Health(req)
  ELSE IF handler = "root" THEN Root(req)
  ELSE NotFoundHandler(req)

\* The middleware ahead of the routers stops the request: a body the
\* parsers refuse and an origin cors refuses go to globalErrorHandler, a
\* preflight request is answered by cors. No router and no notFoundHandler
\* sees the request.
AppMiddlewareStops(h, req) ==
  /\ inflight[h] = Idle
  /\ ~PassesAppMiddleware(req)
  /\ \E out \in AppMiddleware(req) :
       IF out.kind = "error"
         THEN /\ inflight' = [inflight EXCEPT ![h] =
                                [op |-> "error", req |-> req, by |-> out.by,
                                 err |-> out.err]]
              /\ resp' = NoResp
         ELSE /\ inflight' = inflight
              /\ resp' = out.resp
  /\ UNCHANGED <<store, accounts, nextId, now, env>>

\* A request that the middleware ahead of the routers let through, to a
\* route whose chain does not start with verifyAuth, goes to the first of
\* its chain, req.user undefined.
Dispatch(h, req) ==
  /\ inflight[h] = Idle
  /\ PassesAppMiddleware(req)
  /\ req.route.chain[1] # "verifyAuth"
  /\ inflight' = [inflight EXCEPT ![h] =
                    [op |-> "dispatch", req |-> req, user |-> <<>>, pos |-> 1]]
  /\ resp' = NoResp
  /\ UNCHANGED <<store, accounts, nextId, now, env>>

\* The rest of a chain, from its dispatch or the next() of verifyAuth on: each validator in turn, the first
\* that rejects answers 400; past them the route's handler, which answers
\* at once if it is an inline one and is entered with req.user otherwise.
RunChain(h) ==
  LET req == inflight[h].req
      chain == req.route.chain
      handler == HandlerOf(req.route)
      failing == {i \in inflight[h].pos..Len(chain) : ValidatorErrors(chain[i], req) # {}}
      first == CHOOSE i \in failing : \A j \in failing : i <= j
  IN
  /\ inflight[h].op \in {"dispatch", "next"}
  /\ \/ /\ failing # {}
        /\ resp' = ValidationFailed(handler, req, ValidatorErrors(chain[first], req))
        /\ inflight' = [inflight EXCEPT ![h] = Idle]
     \/ /\ failing = {}
        /\ handler \in InlineHandlers
        /\ resp' = InlineHandler(handler, req)
        /\ inflight' = [inflight EXCEPT ![h] = Idle]
     \/ /\ failing = {}
        /\ handler \notin InlineHandlers
        /\ inflight' = [inflight EXCEPT ![h] =
                          [op |-> "handler", req |-> req, user |-> inflight[h].user]]
        /\ resp' = NoResp
  /\ UNCHANGED <<store, accounts, nextId, now, env>>

\* The controller the chain of h has entered runs on the request the chain
\* brought, up to its answer or its first await between two store calls;
\* the store answers every call.
Controller(h) ==
  \/ AtController(h, "getCurrentUser") /\ \E fail \in BOOLEAN : GetCurrentUser(h, fail)
  \/ VerifyToken(h)
  \/ AtController(h, "deleteAccount")
       /\ DeleteAccountJobs(h, inflight[h].user.id, FALSE)
  \/ AtController(h, "getAllJobs")
       /\ GetAllJobs(h, inflight[h].user.id, inflight[h].req.body, FALSE)
  \/ AtController(h, "getJobStats")
       /\ GetJobStatsCount(h, inflight[h].user.id, FALSE)
  \/ AtController(h, "getJobById")
       /\ GetJobById(h, inflight[h].user.id, inflight[h].req.id, FALSE)
  \/ AtController(h, "createJob")
       /\ CreateJob(h, inflight[h].user.id, inflight[h].req.body, FALSE)
  \/ AtController(h, "updateJob")
       /\ UpdateJobCheck(h, inflight[h].user.id, inflight[h].req.id,
                         inflight[h].req.body, FALSE)
  \/ AtController(h, "deleteJob")
       /\ DeleteJobCheck(h, inflight[h].user.id, inflight[h].req.id, FALSE)
  \/ GetAIStatus(h)
  \/ AtController(h, "generateEmail")
       /\ GenerateEmail(h, inflight[h].user.id, inflight[h].req.body)

\* A suspended controller goes on from its await to its answer.
ControllerResumes(h) ==
  \/ UpdateJobWrite(h, FALSE)
  \/ DeleteJobWrite(h, FALSE)
  \/ GetJobStatsRecent(h, FALSE)
  \/ DeleteAccountUser(h, FALSE)

\* The controller the chain entered throws, or rejects: asyncHandler passes
\* the error to next(), on its way to globalErrorHandler.
HandlerThrows(h, err) ==
  /\ inflight[h].op = "handler"
  /\ inflight' = [inflight EXCEPT ![h] =
                    [op |-> "error", req |-> inflight[h].req,
                     by |-> HandlerOf(inflight[h].req.route), err |-> err]]
  /\ resp' = NoResp
  /\ UNCHANGED <<store, accounts, nextId, now, env>>

\* app.use(globalErrorHandler): the error passed to next() is answered.
GlobalErrorHandlerResponds(h) ==
  /\ inflight[h].op = "error"
  /\ inflight' = [inflight EXCEPT ![h] = Idle]
  /\ resp' = GlobalErrorHandler(inflight[h].by, inflight[h].req, inflight[h].err)
  /\ UNCHANGED <<store, accounts, nextId, now, env>>

\* --------------------------------- src/index.js: startServer, supabase.js

\* The slot of the process itself: startServer() suspended at its await,
\* then the server listening or the process gone.
Main == "main"

\* A connection test that takes a thrown exception for a connection.
TestConnectionErrorOnly(outcome) == outcome # "error"

\* testConnection: true when the query came back without error; false when
\* it came back with one, and when it threw (the catch block).
TestConnection(outcome) == outcome = "ok"

\* The startup query of testConnection settles.
ConnectionSettles(outcome) ==
  /\ inflight[Main].op = "startServer"
  /\ ~inflight[Main].settled
  /\ inflight' = [inflight EXCEPT ![Main] =
                    [op |-> "startServer", settled |-> TRUE, outcome |-> outcome]]
  /\ UNCHANGED <<store, accounts, nextId, now, resp, env>>

\* startServer from the settled await on: process.exit(1) unless connected,
\* then app.listen; an exception on the way ends in the catch block's
\* process.exit(1).
StartServerResume(listenThrows) ==
  LET dbConnected == TestConnection(inflight[Main].outcome) IN
  /\ inflight[Main].op = "startServer"
  /\ inflight[Main].settled
  /\ inflight' = [inflight EXCEPT ![Main] =
                    IF ~dbConnected \/ listenThrows
                      THEN [op |-> "exited", code |-> 1,
                            outcome |-> inflight[Main].outcome]
                      ELSE [op |-> "listening", outcome |-> inflight[Main].outcome]]
  /\ UNCHANGED <<store, accounts, nextId, now, resp, env>>

\* The server takes a request off the port it listens on.
Accept(h, req) ==
  /\ inflight[Main].op = "listening"
  /\ \/ Dispatch(h, req)
     \/ VerifyAuth(h, req)

\* ------------------------------------------------------- requests sent

\* Bodies of POST /api/jobs: the required fields alone; every field the
\* handler reads, untrimmed, with a client-supplied user_id; two bodies the
\* rule set rejects.
CreateBodies ==
  {[company_name |-> <<"G">>, role |-> <<"o">>, status |-> "Applied"],
   [company_name |-> <<" ", "G">>, role |-> <<"o", " ">>, status |-> "Offer",
    applied_date |-> 1, notes |-> <<" ", "n">>, user_id |-> "B"],
   [company_name |-> <<"G">>, role |-> <<"o">>, status |-> "Applied",
    notes |-> <<" ">>],
   [company_name |-> <<" ">>, role |-> <<"o">>, status |-> "Offer"],
   [company_name |-> <<"G">>, role |-> <<"o">>, status |-> "Bogus",
    applied_date |-> -1]}

\* Bodies of PUT /api/jobs/:id: mutable fields, an invalid field, a key that
\* is no column, and user_id naming an existing account or none ("Z").
UpdateBodies ==
  {[status |-> "Interview", notes |-> <<"n", " ">>],
   [company_name |-> <<" ">>],
   [owner |-> "B"]}
  \cup {[user_id |-> u] : u \in Users \cup {"Z"}}

\* Ids a client can name: every id generated so far, one never generated,
\* and one that is no UUID.
Ids == 0..nextId

\* ----------------------------------------------------- the specifications

\* The environment of the deployed server (the deployment guide sets
\* NODE_ENV to production; the key of the generative service is optional).
DeployedEnv == [NODE_ENV |-> "production"]

Init ==
  /\ store = {}
  /\ accounts = Users
  /\ nextId = 1
  /\ now = 0
  /\ inflight = [h \in Handlers |-> Idle]
  /\ resp = NoResp
  /\ env = DeployedEnv

\* The requests of the record service by the users `Callers` that verifyAuth
\* let through, each store call failing or not as `Fails` allows.
JobRequests(Callers, Fails) ==
  \/ \E h \in Slots, u \in Callers, b \in CreateBodies, fail \in Fails :
       CreateJob(h, u, b, fail)
  \/ \E h \in Slots, u \in Callers, id \in Ids, fail \in Fails :
       GetJobById(h, u, id, fail)
  \/ \E h \in Slots, u \in Callers, id \in Ids, b \in UpdateBodies, fail \in Fails :
       UpdateJobCheck(h, u, id, b, fail)
  \/ \E h \in Slots, fail \in Fails : UpdateJobWrite(h, fail)
  \/ \E h \in Slots, u \in Callers, id \in Ids, fail \in Fails :
       DeleteJobCheck(h, u, id, fail)
  \/ \E h \in Slots, fail \in Fails : DeleteJobWrite(h, fail)

\* The record service over a store that answers every call; no account is
\* deleted, so the callers let through are the accounts.
Next == JobRequests(accounts, {FALSE})

Spec == Init /\ [][Next]_vars

\* A table of n rows created one per tick, row i being of kind kinds[i].
TableOf(kinds) ==
  {Merge(kinds[i], [id |-> i, notes |-> <<>>, created_at |-> i - 1,
                    updated_at |-> i - 1]) : i \in DOMAIN kinds}

\* One GET /api/jobs request against a table of up to ListJobs rows.
ListNames ==
  {[company_name |-> <<"G", "o">>, role |-> <<"x">>],
   [company_name |-> <<"x">>, role |-> <<"O", "g">>],
   [company_name |-> <<"x">>, role |-> <<"x">>]}

\* Rows of A under every name, rows of B under the first one.
ListKinds ==
  {Merge(n, [user_id |-> "A", status |-> s, applied_date |-> d]) :
     n \in ListNames, s \in {"Applied", "Interview"}, d \in {0, 1}}
  \cup
  {[company_name |-> <<"G", "o">>, role |-> <<"x">>, user_id |-> "B", status |-> s,
    applied_date |-> d] : s \in {"Applied", "Interview"}, d \in {0, 1}}

\* Query strings: each filter absent, matching in another letter case, with
\* surrounding blanks, with a LIKE wildcard; page sizes and offsets around
\* the table's size; two queries the rule set rejects.
StatusOpts == {EmptyObj, [status |-> "Interview"]}
SearchOpts ==
  {EmptyObj} \cup
  {[search |-> t] : t \in {<<"g">>, <<"o", "G">>, <<" ", "x">>, <<" ">>, <<"_">>}}
LimitOpts == {EmptyObj, [limit |-> 1], [limit |-> 2]}
OffsetOpts == {EmptyObj, [offset |-> 1]}

Queries ==
  {Merge(Merge(st, se), Merge(l, o)) :
     st \in StatusOpts, se \in SearchOpts, l \in LimitOpts, o \in OffsetOpts}
  \cup {[status |-> "Bogus"], [limit |-> 0, offset |-> -1]}

InitList ==
  /\ \E n \in 0..ListJobs : \E kinds \in [1..n -> ListKinds] :
       /\ store = TableOf(kinds)
       /\ nextId = n + 1
       /\ now = n
  /\ accounts = Users
  /\ inflight = [h \in Handlers |-> Idle]
  /\ resp = NoResp
  /\ env = DeployedEnv

NextList ==
  /\ resp = NoResp
  /\ \E h \in Slots, u \in accounts, q \in Queries : GetAllJobs(h, u, q, FALSE)

SpecList == InitList /\ [][NextList]_vars

\* One GET /api/jobs/stats request against a table of up to StatsJobs rows.
\* Rows of A in every status, rows of B in one.
StatsKinds ==
  {[company_name |-> <<"G">>, role |-> <<"o">>, user_id |-> "A", status |-> s,
    applied_date |-> 0] : s \in Statuses}
  \cup
  {[company_name |-> <<"G">>, role |-> <<"o">>, user_id |-> "B", status |-> "Applied",
    applied_date |-> 0]}

InitStats ==
  /\ \E n \in 0..StatsJobs : \E kinds \in [1..n -> StatsKinds] :
       /\ store = TableOf(kinds)
       /\ nextId = n + 1
       /\ now = n
  /\ accounts = Users
  /\ inflight = [h \in Handlers |-> Idle]
  /\ resp = NoResp
  /\ env = DeployedEnv

NextStats ==
  \/ /\ resp = NoResp
     /\ \E h \in Slots, u \in accounts : GetJobStatsCount(h, u, FALSE)
  \/ \E h \in Slots : GetJobStatsRecent(h, FALSE)

SpecStats == InitStats /\ [][NextStats]_vars

\* The record service over a store any call of which can fail: the six
\* operations, the two-call ones failing at either call.
FaultyQueries == {EmptyObj, [status |-> "Interview", limit |-> 1], [status |-> "Bogus"]}

NextFaulty ==
  \/ JobRequests(accounts, BOOLEAN)
  \/ \E h \in Slots, u \in accounts, q \in FaultyQueries, fail \in BOOLEAN :
       GetAllJobs(h, u, q, fail)
  \/ \E h \in Slots, u \in accounts, fail \in BOOLEAN : GetJobStatsCount(h, u, fail)
  \/ \E h \in Slots, fail \in BOOLEAN : GetJobStatsRecent(h, fail)

SpecFaulty == Init /\ [][NextFaulty]_vars

\* Account deletion among the requests of the record service. A request runs
\* its handler for the user verifyAuth resolved when it came in, so handlers
\* of a user still run after the account is gone; two handlers can be
\* suspended at once.
AccountHandlers == {"h1", "h2"}

AccountBodies == {[company_name |-> <<"G">>, role |-> <<"o">>, status |-> "Applied"]}

InitAccount ==
  /\ store = {}
  /\ accounts = Users
  /\ nextId = 1
  /\ now = 0
  /\ inflight = [h \in AccountHandlers |-> Idle]
  /\ resp = NoResp
  /\ env = DeployedEnv

NextAccount ==
  \/ \E h \in Slots, u \in Users, b \in AccountBodies : CreateJob(h, u, b, FALSE)
  \/ \E h \in Slots, u \in Users, id \in 1..nextId :
       UpdateJobCheck(h, u, id, [user_id |-> "A"], FALSE)
  \/ \E h \in Slots : UpdateJobWrite(h, FALSE)
  \/ \E h \in Slots, u \in Users, fail \in BOOLEAN : DeleteAccountJobs(h, u, fail)
  \/ \E h \in Slots, fail \in BOOLEAN : DeleteAccountUser(h, fail)

SpecAccount == InitAccount /\ [][NextAccount]_vars

\* One PUT /api/jobs/:id against a table of up to UpdateJobs rows created one
\* per tick, the last one a tick ago: rows of A in every status, a row of B.
UpdateKinds ==
  {[company_name |-> <<"G">>, role |-> <<"o">>, user_id |-> "A", status |-> s,
    applied_date |-> 0, notes |-> <<"n">>] : s \in Statuses}
  \cup
  {[company_name |-> <<"G">>, role |-> <<"o">>, user_id |-> "B", status |-> "Applied",
    applied_date |-> 0, notes |-> <<"n">>]}

UpdateTableOf(kinds) ==
  {Merge(kinds[i], [id |-> i, created_at |-> i - 1 - Len(kinds),
                    updated_at |-> i - 1 - Len(kinds)]) : i \in DOMAIN kinds}

\* Bodies of PUT /api/jobs/:id: every subset of the mutable fields, the
\* status any value of the enumeration; one body the rule set rejects; bodies
\* that name the columns the server assigns (an id not in use, timestamps).
MutableFields == {"company_name", "role", "status", "applied_date", "notes"}

PutBodies ==
  {[f \in fields |->
      [company_name |-> <<" ", "H">>, role |-> <<"r">>, status |-> s,
       applied_date |-> 1, notes |-> <<"m", " ">>][f]] :
     fields \in SUBSET MutableFields, s \in Statuses}
  \cup {[role |-> <<" ">>]}
  \cup {[id |-> 9], [created_at |-> 7], [status |-> "Offer", updated_at |-> 7]}

InitUpdate ==
  /\ \E n \in 1..UpdateJobs : \E kinds \in [1..n -> UpdateKinds] :
       /\ store = UpdateTableOf(kinds)
       /\ nextId = n + 1
  /\ now = 0
  /\ accounts = Users
  /\ inflight = [h \in Handlers |-> Idle]
  /\ resp = NoResp
  /\ env = DeployedEnv

NextUpdate ==
  \/ /\ resp = NoResp
     /\ \E h \in Slots, u \in accounts, id \in Ids, b \in PutBodies :
          UpdateJobCheck(h, u, id, b, FALSE)
  \/ \E h \in Slots : UpdateJobWrite(h, FALSE)

SpecUpdate == InitUpdate /\ [][NextUpdate]_vars

\* The email-draft service under every configuration of its credential:
\* none, an empty one, one of another format, two of the expected format.
AIEnvs ==
  {DeployedEnv}
  \cup {Merge(DeployedEnv, [OPENAI_API_KEY |-> k]) :
          k \in {<<>>, <<"p", "k", "-", "x">>, <<"s", "k">>, <<"s", "k", "-">>,
                 <<"s", "k", "-", "x">>}}

\* Bodies of POST /api/ai/generate-email: each type, with and without a
\* recipient, untrimmed; three bodies the rule set rejects.
EmailBodies ==
  {[type |-> t, company_name |-> <<"G">>, role |-> <<"o">>, your_name |-> <<"n">>] :
     t \in EmailTypes}
  \cup
  {[type |-> t, company_name |-> <<" ", "G">>, role |-> <<"o">>, your_name |-> <<"n", " ">>,
    recipient_name |-> r] : t \in {"cold", "referral"}, r \in {<<"r">>, <<" ">>}}
  \cup
  {[type |-> "bogus", company_name |-> <<"G">>, role |-> <<"o">>, your_name |-> <<"n">>],
   [type |-> "cold", company_name |-> <<" ">>, role |-> <<"o">>, your_name |-> <<"n">>],
   [type |-> "followup", company_name |-> <<"G">>, role |-> <<"o">>]}

\* What the external call can settle with: an error thrown, a completion
\* without content, and completions whose content is empty, blank, in the
\* format asked for, without a subject line, a subject line alone, an empty
\* subject, a subject line after other text, a subject line followed at once
\* by the text.
Completions ==
  {[thrown |-> TRUE], [thrown |-> FALSE]}
  \cup
  {[thrown |-> FALSE, content |-> c] :
     c \in {<<>>,
            <<" ", "\n">>,
            <<"Subject:", " ", "a", "\n", "\n", "b">>,
            <<"a", "\n", "b">>,
            <<"SUBJECT:", "a">>,
            <<"Subject:", "\n", "\n", "b">>,
            <<"Subject:", " ", "a", "\n", "b", "\n", "c">>,
            <<"a", "\n", "subject:", "b", "\n", "c", "\n", "d", " ">>}}

InitAI ==
  /\ store = {}
  /\ accounts = Users
  /\ nextId = 1
  /\ now = 0
  /\ inflight = [h \in Handlers |-> Idle]
  /\ resp = NoResp
  /\ env \in AIEnvs

NextAI ==
  \/ \E h \in Slots, u \in accounts, b \in EmailBodies : GenerateEmail(h, u, b)
  \/ \E h \in Slots, c \in Completions : OpenAISettles(h, c)
  \/ \E h \in Slots : GenerateEmailResume(h)

SpecAI == InitAI /\ [][NextAI]_vars

\* Authorization headers: none, an empty one, the session of each user, a
\* token of no session, no token, and headers of another format.
HeaderOpts ==
  {EmptyObj}
  \cup {[authorization |-> a] :
          a \in {<<>>,
                 <<"Bearer", " ", "tA">>,
                 <<"Bearer", " ", "tB">>,
                 <<"Bearer", " ", "tX">>,
                 <<"Bearer", " ">>,
                 <<"bearer", " ", "tA">>,
                 <<"tA">>,
                 <<"Bearer", " ", " ", "tA">>,
                 <<"Bearer", " ", "tA", " ", "x">>}}

\* The :id and body (or query string) sent to a route: what its validators
\* accept, and what each of them rejects.
InputsOf(route) ==
  LET handler == HandlerOf(route) IN
  IF handler = "createJob"
    THEN {[id |-> 0, body |-> b] :
            b \in CreateBodies
                  \cup {[role |-> <<"o">>, status |-> "Applied"],
                        [company_name |-> <<"G">>, status |-> "Applied"],
                        [company_name |-> <<"G">>, role |-> <<>>, status |-> "Applied"],
                        [company_name |-> <<"G">>, role |-> <<"o">>]}}
  ELSE IF handler = "updateJob"
    THEN {[id |-> i, body |-> b] :
            i \in {0, 1}, b \in {[status |-> "Interview"], [role |-> <<" ">>]}}
  ELSE IF handler \in {"getJobById", "deleteJob"}
    THEN {[id |-> i, body |-> EmptyObj] : i \in {0, 1}}
  ELSE IF handler = "getAllJobs"
    THEN {[id |-> 0, body |-> q] :
            q \in {EmptyObj, [limit |-> 0], [limit |-> MaxLimit + 1], [offset |-> -1],
                   [status |-> "Bogus"],
                   [status |-> "Applied", limit |-> MaxLimit, offset |-> 0]}}
  ELSE IF handler = "generateEmail" THEN {[id |-> 0, body |-> b] : b \in EmailBodies}
  ELSE {[id |-> 0, body |-> EmptyObj]}

\* The requests of the routes: each comes with no Origin header and with a
\* body the parsers accept, so the middleware ahead of the routers lets it
\* through.
ChainRequests ==
  UNION {{ChainRequest(route, hd, i.id, i.body) : hd \in HeaderOpts, i \in InputsOf(route)} :
           route \in AppRoutes}

\* What can go wrong in the identity store.
Faults == {"none", "error", "nouser", "throw"}

\* The table a served request finds: one row, of B, created a tick ago.
ServedTable ==
  {[id |-> 1, user_id |-> "B", company_name |-> <<"G">>, role |-> <<"o">>,
    status |-> "Applied", applied_date |-> 0, notes |-> <<>>, created_at |-> 0,
    updated_at |-> 0]}

\* One request through its middleware chain and its controller, with both
\* accounts there or the first deleted.
InitRoutes ==
  /\ store = ServedTable
  /\ accounts \in {Users, {"B"}}
  /\ nextId = 2
  /\ now = 1
  /\ inflight = [h \in Handlers |-> Idle]
  /\ resp = NoResp
  /\ env = DeployedEnv

NextRoutes ==
  \/ /\ resp = NoResp
     /\ \E h \in Slots, req \in ChainRequests : VerifyAuth(h, req)
  \/ \E h \in Slots, fault \in Faults : GetUserSettles(h, fault)
  \/ \E h \in Slots : VerifyAuthResume(h)
  \/ \E h \in Slots : RunChain(h)
  \/ \E h \in Slots : Controller(h)
  \/ \E h \in Slots : ControllerResumes(h)
  \/ /\ resp = NoResp
     /\ \E h \in Slots, req \in ChainRequests : Dispatch(h, req)

SpecRoutes == InitRoutes /\ [][NextRoutes]_vars

\* The record service with its statistics: creates, updates and deletes of
\* every body of the request sets, and GET /api/jobs/stats among them.
NextService ==
  \/ Next
  \/ \E h \in Slots, u \in accounts : GetJobStatsCount(h, u, FALSE)
  \/ \E h \in Slots : GetJobStatsRecent(h, FALSE)

SpecService == Init /\ [][NextService]_vars

\* Concurrent requests of the record service on the same rows: two handlers
\* can be suspended at once, each between its check and its write.
RaceHandlers == {"h1", "h2"}

RaceUpdates == {[status |-> "Interview"], [company_name |-> <<"H">>, notes |-> <<"m">>]}

InitRace ==
  /\ store = {}
  /\ accounts = Users
  /\ nextId = 1
  /\ now = 0
  /\ inflight = [h \in RaceHandlers |-> Idle]
  /\ resp = NoResp
  /\ env = DeployedEnv

NextRace ==
  \/ \E h \in Slots, u \in accounts, b \in AccountBodies : CreateJob(h, u, b, FALSE)
  \/ \E h \in Slots, u \in accounts, id \in 1..nextId, b \in RaceUpdates :
       UpdateJobCheck(h, u, id, b, FALSE)
  \/ \E h \in Slots : UpdateJobWrite(h, FALSE)
  \/ \E h \in Slots, u \in accounts, id \in 1..nextId : DeleteJobCheck(h, u, id, FALSE)
  \/ \E h \in Slots : DeleteJobWrite(h, FALSE)

SpecRace == InitRace /\ [][NextRace]_vars

\* The process from the call of startServer() on, and a request it serves
\* once it listens. The startup query answers, answers with an error, or
\* throws.
ConnectionOutcomes == {"ok", "error", "throws"}

InitStartup ==
  /\ store = ServedTable
  /\ accounts = Users
  /\ nextId = 2
  /\ now = 1
  /\ inflight = [h \in Handlers \cup {Main} |->
                   IF h = Main THEN [op |-> "startServer", settled |-> FALSE] ELSE Idle]
  /\ resp = NoResp
  /\ env = DeployedEnv

NextStartup ==
  \/ \E outcome \in ConnectionOutcomes : ConnectionSettles(outcome)
  \/ \E listenThrows \in BOOLEAN : StartServerResume(listenThrows)
  \/ /\ resp = NoResp
     /\ \E h \in Handlers, req \in ChainRequests : Accept(h, req)
  \/ \E h \in Handlers, fault \in Faults : GetUserSettles(h, fault)
  \/ \E h \in Handlers : VerifyAuthResume(h)
  \/ \E h \in Handlers : RunChain(h)
  \/ \E h \in Handlers : Controller(h)
  \/ \E h \in Handlers : ControllerResumes(h)

SpecStartup == InitStartup /\ [][NextStartup]_vars

\* Errors on their way to globalErrorHandler, under every mode the server
\* can be started in. The errors: a plain Error, errors with a status of
\* their own (an APIError, a body-parser error), errors with a code but no
\* status (a Node system error), and properties that are there but falsy.
ErrorEnvs ==
  {DeployedEnv, [NODE_ENV |-> "development"], [NODE_ENV |-> "test"], EmptyObj,
   [NODE_ENV |-> "production", FRONTEND_URL |-> "https://app.example"]}

ErrorsPassed ==
  {Merge(Merge([message |-> "boom", stack |-> "stack"], st), co) :
     st \in {EmptyObj} \cup {[statusCode |-> n] : n \in {0, 400, 404, 500, 503}},
     co \in {EmptyObj} \cup {[code |-> c] : c \in {"", "NOT_FOUND", "ECONNREFUSED"}}}

\* Preflight requests, to no route of the server: outside the routers and
\* into a router that runs verifyAuth.
PreflightRoutes ==
  {Unmatched("OPTIONS", "/nothing")} \cup
    Use("verifyAuth", {Unmatched("OPTIONS", "/api/jobs")})

\* The Origin header a request comes with: none (not from a browser), a
\* local one, the deployed frontend's, a stranger's.
OriginOpts ==
  {EmptyObj} \cup
    {[origin |-> o] :
       o \in {"http://localhost:5173", "https://app.example", "https://evil.example"}}

\* The body a request comes with: none, two that are no JSON, one over the
\* limit.
ErrorBodies ==
  {EmptyObj, RawBody(<<"{">>, 1), RawBody(<<"{", "x">>, 1),
   RawBody(<<"{", "}">>, BodyLimit + 1)}

\* Requests to a route of each router and to no route of each router and
\* of none, with no Authorization header and with the session of A.
ErrorRequests ==
  {ChainRequest(route, Merge(hd, origin), 0, body) :
     route \in {r \in AppRoutes :
                  HandlerOf(r) \in {"notFoundHandler", "getCurrentUser", "getJobStats"}}
               \cup PreflightRoutes,
     hd \in {EmptyObj, [authorization |-> <<"Bearer", " ", "tA">>]},
     origin \in OriginOpts,
     body \in ErrorBodies}

InitErrors ==
  /\ store = {}
  /\ accounts = Users
  /\ nextId = 1
  /\ now = 0
  /\ inflight = [h \in Handlers |-> Idle]
  /\ resp = NoResp
  /\ env \in ErrorEnvs

NextErrors ==
  \/ /\ resp = NoResp
     /\ \E h \in Slots, req \in ErrorRequests : AppMiddlewareStops(h, req)
  \/ /\ resp = NoResp
     /\ \E h \in Slots, req \in ErrorRequests : VerifyAuth(h, req)
  \/ /\ resp = NoResp
     /\ \E h \in Slots, req \in ErrorRequests : Dispatch(h, req)
  \/ \E h \in Slots, fault \in Faults : GetUserSettles(h, fault)
  \/ \E h \in Slots : VerifyAuthResume(h)
  \/ \E h \in Slots : RunChain(h)
  \/ \E h \in Slots, err \in ErrorsPassed : HandlerThrows(h, err)
  \/ \E h \in Slots : GlobalErrorHandlerResponds(h)

SpecErrors == InitErrors /\ [][NextErrors]_vars

\* ------------------------------------------------------------ properties

Max(a, b) == IF a > b THEN a ELSE b

LowerStr(s) == [i \in 1..Len(s) |-> Lower(s[i])]

\* The rows with this id that belong to this user, read off the table.
RowsOf(id, u) == {r \in store : r.id = id /\ r.user_id = u}

\* The rows with this id that belong to somebody else.
RowsOfOthers(id, u) == {r \in store : r.id = id /\ r.user_id # u}

\* The one not-found answer of the record service.
IsNotFound(rsp) ==
  /\ rsp.status = 404
  /\ rsp.code = "NOT_FOUND"
  /\ rsp.message = "Job application not found"
  /\ rsp.data = <<>>

\* The step answers a request in its first step (the handler was not
\* suspended on it).
AnswersAtOnce(op) == resp'.op = op /\ inflight' = inflight

\* A handler is suspended on a request of this kind by the step.
Suspends(h, op) == inflight[h] = Idle /\ inflight'[h].op = op

\* C1: GET /api/jobs/:id by a user for the id of a row that another user
\* owns answers 404 NOT_FOUND without the row, exactly as it answers for an
\* id that has no row: whenever the caller owns no row with the (well-formed)
\* id, the answer is the one not-found answer.
C1_GetOthersNotFound ==
  (/\ resp.op = "getJobById"
   /\ IsUUID(resp.req.id)
   /\ RowsOf(resp.req.id, resp.req.caller) = {})
    => IsNotFound(resp)

\* A user has just asked for a row that exists and belongs to another user.
C1_Witness ==
  /\ resp.op = "getJobById"
  /\ RowsOfOthers(resp.req.id, resp.req.caller) # {}
  /\ IsNotFound(resp)

\* C2: the owner of a stored row never changes: no step, whatever the body
\* of the PUT it serves, leaves a row with another user_id than it had.
C2_OwnerNeverChanges ==
  [][\A r \in store : \A r2 \in store' : r2.id = r.id => r2.user_id = r.user_id]_vars

\* C3: PUT /api/jobs/:id for an id the caller owns no row of (no row, or a
\* row of another user) answers 404 NOT_FOUND and changes no row, and the
\* write is issued (the handler goes on to its second store call) only if
\* the check found a row of the caller.
C3_UpdateOfMissing ==
  [][/\ (/\ AnswersAtOnce("updateJob")
         /\ resp'.status # 400
         /\ RowsOf(resp'.req.id, resp'.req.caller) = {})
        => (IsNotFound(resp') /\ store' = store)
     /\ \A h \in Slots :
          Suspends(h, "updateJob")
            => RowsOf(inflight'[h].req.id, inflight'[h].req.caller) # {}
     /\ (resp'.op = "updateJob" /\ store' # store)
          => \E h \in Slots : inflight[h].op = "updateJob" /\ inflight[h].req = resp'.req
    ]_vars

\* A user has just tried to update a row of another user.
C3_Witness ==
  /\ resp.op = "updateJob"
  /\ resp.status = 404
  /\ RowsOfOthers(resp.req.id, resp.req.caller) # {}
  /\ \A h \in Slots : inflight[h] = Idle

\* C4: DELETE /api/jobs/:id answers an id that has no row and an id whose
\* row another user owns with the same 404 NOT_FOUND answer, removes no row
\* in either case, and goes on to its delete only for a row of the caller.
C4_DeleteOfMissing ==
  [][/\ (/\ AnswersAtOnce("deleteJob")
         /\ IsUUID(resp'.req.id)
         /\ RowsOf(resp'.req.id, resp'.req.caller) = {})
        => (IsNotFound(resp') /\ store' = store)
     /\ \A h \in Slots :
          Suspends(h, "deleteJob")
            => RowsOf(inflight'[h].req.id, inflight'[h].req.caller) # {}
    ]_vars

\* A user has just tried to delete a row of another user, and it is there.
C4_Witness ==
  /\ resp.op = "deleteJob"
  /\ resp.status = 404
  /\ RowsOfOthers(resp.req.id, resp.req.caller) # {}

\* The rows of a response, as a set.
DataSet(rsp) == {rsp.data[i] : i \in DOMAIN rsp.data}

\* C5: GET /api/jobs returns only rows of the table that the caller owns,
\* and with status=s only rows whose status is exactly s.
C5_ListOwnAndStatus ==
  (resp.op = "getAllJobs" /\ resp.status = 200)
    => \A r \in DataSet(resp) :
         /\ r \in store
         /\ r.user_id = resp.req.caller
         /\ "status" \in DOMAIN resp.req.body => r.status = resp.req.body.status

\* A list filtered by status came back non-empty while another user holds a
\* row of that status.
C5_Witness ==
  /\ resp.op = "getAllJobs"
  /\ resp.status = 200
  /\ "status" \in DOMAIN resp.req.body
  /\ resp.data # <<>>
  /\ \E r \in store : r.user_id # resp.req.caller /\ r.status = resp.req.body.status

\* q occurs in s as a substring, letter case ignored.
ContainsCI(s, q) ==
  \E i \in 0..(Len(s) - Len(q)) : LowerStr(SubSeq(s, i + 1, i + Len(q))) = LowerStr(q)

\* C6: with a non-empty search string q (here: one without surrounding
\* blanks, and a page that holds every match), the rows GET /api/jobs
\* returns are exactly the caller's rows that have q as a case-insensitive
\* substring of company name or role, and the status asked for if one is.
C6_SearchIsSubstring ==
  (/\ resp.op = "getAllJobs"
   /\ resp.status = 200
   /\ "search" \in DOMAIN resp.req.body
   /\ resp.req.body.search # <<>>
   /\ resp.req.body.search = Trim(resp.req.body.search)
   /\ DOMAIN resp.req.body \subseteq {"search", "status"})
    => DataSet(resp) =
         {r \in store :
            /\ r.user_id = resp.req.caller
            /\ "status" \in DOMAIN resp.req.body => r.status = resp.req.body.status
            /\ \/ ContainsCI(r.company_name, resp.req.body.search)
               \/ ContainsCI(r.role, resp.req.body.search)}

\* C7: GET /api/jobs with limit L (default 50) and offset O (default 0),
\* both within the limits of the rule set, is answered with the rows at
\* positions O .. O+L-1 of the matching set in descending order of applied
\* date, pagination.total being the size of the matching set and hasMore
\* saying whether O + rows returned < total.
C7_Pagination ==
  (resp.op = "getAllJobs" /\ resp.status # 400) =>
    LET q == resp.req.body
        L == IF "limit" \in DOMAIN q THEN q.limit ELSE 50
        O == IF "offset" \in DOMAIN q THEN q.offset ELSE 0
        M == Matching(resp.req.caller, SanitizeQuery(q))
        total == Cardinality(M)
        data == resp.data
    IN
    /\ resp.status = 200
    /\ resp.pagination.total = total
    /\ resp.pagination.limit = L
    /\ resp.pagination.offset = O
    /\ Len(data) = Min(L, Max(total - O, 0))
    /\ \A i, j \in DOMAIN data : i # j => data[i] # data[j]
    /\ \A i \in DOMAIN data :
         /\ data[i] \in M
         /\ Cardinality({r \in M : r.applied_date > data[i].applied_date}) <= O + i - 1
         /\ Cardinality({r \in M : r.applied_date >= data[i].applied_date}) >= O + i
    /\ resp.pagination.hasMore = (O + Len(data) < total)

\* The step answers POST /api/jobs with 201.
Created == resp'.op = "createJob" /\ resp'.status = 201

\* What a successful POST /api/jobs stores and returns, but for the notes:
\* one new row under a fresh id, owned by the caller, dated as supplied or
\* today, and returned as stored.
StoresOneRow(row) ==
  /\ store' = store \cup {row}
  /\ \A r \in store : r.id # row.id
  /\ row.user_id = resp'.req.caller
  /\ row.applied_date =
       IF "applied_date" \in DOMAIN resp'.req.body
         THEN resp'.req.body.applied_date
         ELSE DateOf(now)
  /\ resp'.data = <<row>>

\* C8, as amended: a successful POST /api/jobs by U stores exactly one new
\* row whose owner is U whatever user_id the body carries, whose applied
\* date is the supplied one or the current date when none is supplied, and
\* whose notes are the supplied notes without their leading and trailing
\* blanks, or the empty string when none are supplied; it answers 201 with
\* the stored row.
C8_CreateStoresTrimmed ==
  [][Created =>
       \E row \in store' :
         /\ StoresOneRow(row)
         /\ row.notes =
              IF "notes" \in DOMAIN resp'.req.body
                THEN Trim(resp'.req.body.notes)
                ELSE <<>>
    ]_vars

\* C8, as claimed: ... whose notes are the supplied notes, or the empty
\* string when none are supplied.
C8_CreateStoresSupplied ==
  [][Created =>
       \E row \in store' :
         /\ StoresOneRow(row)
         /\ row.notes =
              IF "notes" \in DOMAIN resp'.req.body THEN resp'.req.body.notes ELSE <<>>
    ]_vars

\* A row was just created from a body that named another user as owner and
\* supplied a date and notes.
C8_Witness ==
  /\ resp.op = "createJob"
  /\ resp.status = 201
  /\ {"user_id", "applied_date", "notes"} \subseteq DOMAIN resp.req.body
  /\ resp.req.body.user_id # resp.req.caller
  /\ resp.data[1] \in store
  /\ resp.data[1].user_id = resp.req.caller

\* The fields a client sets, of a row.
ClientFields(r) ==
  [f \in {"company_name", "role", "status", "applied_date", "notes"} |-> r[f]]

\* C9: GET /api/jobs/:id by the same caller, right after a successful POST
\* /api/jobs and with the id it returned, answers 200 with a row equal to
\* the created one in company name, role, status, applied date and notes.
C9_CreateThenGet ==
  [][(/\ resp.op = "createJob"
      /\ resp.status = 201
      /\ resp'.op = "getJobById"
      /\ resp'.req.caller = resp.req.caller
      /\ resp'.req.id = resp.data[1].id)
       => /\ resp'.status = 200
          /\ Len(resp'.data) = 1
          /\ ClientFields(resp'.data[1]) = ClientFields(resp.data[1])
    ]_vars

\* A row with notes was fetched by its owner, no write having happened
\* since its creation.
C9_Witness ==
  /\ resp.op = "getJobById"
  /\ resp.status = 200
  /\ resp.data[1].created_at = now - 1
  /\ resp.data[1].notes # <<>>
  /\ resp.data[1].user_id = resp.req.caller

\* C10: GET /api/jobs/stats answers with total = the number of rows the
\* caller owns and applied/interview/rejected/offer = the number of those
\* in each status, no row of another user counted.
C10_Stats ==
  (resp.op = "getJobStats" /\ resp.status = 200) =>
    LET mine == {r \in store : r.user_id = resp.req.caller}
        n(s) == Cardinality({r \in mine : r.status = s})
    IN
    resp.stats = [total |-> Cardinality(mine), applied |-> n("Applied"),
                  interview |-> n("Interview"), rejected |-> n("Rejected"),
                  offer |-> n("Offer")]

\* The statistics of a user with 3 Applied, 1 Interview, 0 Rejected and 1
\* Offer, while another user holds a row too.
C10_Witness ==
  /\ resp.op = "getJobStats"
  /\ resp.status = 200
  /\ resp.stats = [total |-> 5, applied |-> 3, interview |-> 1, rejected |-> 0,
                   offer |-> 1]
  /\ \E r \in store : r.user_id # resp.req.caller

\* C11: the recent list of GET /api/jobs/stats holds min(5, n) of the n rows
\* the caller owns, each once and none of another user, in descending order
\* of creation time, and no row of the caller left out was created later
\* than a row in the list.
C11_Recent ==
  (resp.op = "getJobStats" /\ resp.status = 200) =>
    LET mine == {r \in store : r.user_id = resp.req.caller}
        recent == resp.data
    IN
    /\ Len(recent) = Min(5, Cardinality(mine))
    /\ \A i \in DOMAIN recent : recent[i] \in mine
    /\ \A i, j \in DOMAIN recent : i < j =>
         /\ recent[i] # recent[j]
         /\ recent[i].created_at >= recent[j].created_at
    /\ \A r \in mine \ DataSet(resp) :
         \A i \in DOMAIN recent : r.created_at <= recent[i].created_at

\* A user with more than five rows got five of them, the oldest left out.
C11_Witness ==
  /\ resp.op = "getJobStats"
  /\ resp.status = 200
  /\ Len(resp.data) = 5
  /\ \E r \in store :
       /\ r.user_id = resp.req.caller
       /\ r \notin DataSet(resp)
       /\ \A i \in DOMAIN resp.data : r.created_at < resp.data[i].created_at

\* The credential is there and passes the format check, read off the
\* environment.
KeyConfigured ==
  /\ "OPENAI_API_KEY" \in DOMAIN env
  /\ Len(env.OPENAI_API_KEY) >= 3
  /\ env.OPENAI_API_KEY[1] = "s"
  /\ env.OPENAI_API_KEY[2] = "k"
  /\ env.OPENAI_API_KEY[3] = "-"

\* The fixed text each template's subject and body start with.
SubjectHead(type) ==
  IF type = "cold" THEN "Application for "
  ELSE IF type = "followup" THEN "Follow-up: " ELSE "Referral Request: "

BodyHead(type) == IF type = "referral" THEN "Hi " ELSE StartOfLetter

\* The response is the template of the type its request asked for, filled
\* with the role and company of the request, and says so.
IsTemplateAnswer(rsp) ==
  /\ rsp.status = 200
  /\ rsp.data.generated_by = "template"
  /\ rsp.data.subject[1] = SubjectHead(rsp.req.body.type)
  /\ rsp.data.subject[2] = Trim(rsp.req.body.role)[1]
  /\ rsp.data.subject[Len(rsp.data.subject)] = Trim(rsp.req.body.company_name)[1]
  /\ rsp.data.body # <<>>
  /\ rsp.data.body[1] = BodyHead(rsp.req.body.type)

\* The step answers a generate-email request that passed validation.
AnswersEmail == resp'.op = "generateEmail" /\ resp'.status # 400

\* A handler waits for the external call, or has its answer.
CallInvoked == \E h \in Slots : inflight[h].op = "generateEmail"

\* C12: with no credential configured, or one that does not start with
\* "sk-", every generate-email request that passes validation is answered
\* with the template of its type and generated_by = "template", and the
\* external call is never invoked (no handler ever waits for it).
C12_TemplateWithoutCredential ==
  ~KeyConfigured =>
    /\ ~CallInvoked
    /\ (resp.op = "generateEmail" /\ resp.status # 400) => IsTemplateAnswer(resp)

\* A referral draft was answered from the template under a credential of
\* another format.
C12_Witness ==
  /\ "OPENAI_API_KEY" \in DOMAIN env
  /\ env.OPENAI_API_KEY # <<>>
  /\ ~KeyConfigured
  /\ resp.op = "generateEmail"
  /\ resp.status = 200
  /\ resp.req.body.type = "referral"
  /\ resp.data.generated_by = "template"

\* The external call failed: it threw, or its completion has no content or
\* an empty one.
CallFailed(c) == c.thrown \/ "content" \notin DOMAIN c \/ c.content = <<>>

\* The handler resumes from its settled call and answers.
Resumes(h) ==
  /\ inflight[h].op = "generateEmail"
  /\ inflight[h].settled
  /\ inflight'[h] = Idle

\* C13: with a backend configured, a validated generate-email request whose
\* external call fails (an error thrown, or an empty or missing completion)
\* is answered 200 with the template of its type, generated_by = "template"
\* and a non-empty subject and body; no validated request is answered with
\* an error status.
C13_FailureFallsBack ==
  [][/\ \A h \in Slots :
          (Resumes(h) /\ CallFailed(inflight[h].completion))
            => /\ resp'.op = "generateEmail"
               /\ resp'.req = inflight[h].req
               /\ IsTemplateAnswer(resp')
               /\ resp'.data.subject # <<>>
     /\ AnswersEmail => resp'.status = 200
    ]_vars

\* Under a configured backend a draft came from the template: the call had
\* failed.
C13_Witness ==
  /\ KeyConfigured
  /\ resp.op = "generateEmail"
  /\ resp.status = 200
  /\ resp.data.generated_by = "template"
  /\ resp.data.subject # <<>>
  /\ resp.data.body # <<>>

\* The external call was invoked for the request the step answers and
\* returned a completion that is not empty.
CallSucceeded ==
  \E h \in Slots :
    /\ Resumes(h)
    /\ inflight[h].req = resp'.req
    /\ ~inflight[h].completion.thrown
    /\ "content" \in DOMAIN inflight[h].completion
    /\ inflight[h].completion.content # <<>>

\* C14: every answer to a validated generate-email request carries
\* generated_by, "ai" or "template": "ai" only if the external call was
\* invoked and returned a non-empty completion, "template" whenever it was
\* not; a note is there exactly when generated_by is "template".
C14_GeneratedBy ==
  [][AnswersEmail =>
       /\ "generated_by" \in DOMAIN resp'.data
       /\ resp'.data.generated_by \in {"ai", "template"}
       /\ resp'.data.generated_by = "ai" => CallSucceeded
       /\ ~CallSucceeded => resp'.data.generated_by = "template"
       /\ ("note" \in DOMAIN resp'.data) <=> (resp'.data.generated_by = "template")
    ]_vars

\* A draft came from the external call, without a note.
C14_Witness ==
  /\ resp.op = "generateEmail"
  /\ resp.status = 200
  /\ resp.data.generated_by = "ai"
  /\ "note" \notin DOMAIN resp.data
  /\ resp.data.subject = <<"a">>
  /\ resp.data.body = <<"b">>

\* The request carries no Authorization header (none, or one without value).
HasNoHeader(req) ==
  IF "authorization" \in DOMAIN req.headers THEN req.headers.authorization = <<>> ELSE TRUE

\* The header is exactly two parts separated by one blank, the first of
\* them the word Bearer.
TwoPartsBearer(req) ==
  LET a == req.headers.authorization IN
  /\ Len(a) >= 2
  /\ a[1] = "Bearer"
  /\ a[2] = " "
  /\ \A i \in 3..Len(a) : a[i] # " "

\* A rejection by verifyAuth with this reason code.
IsRejection(rsp, req, code) ==
  /\ rsp.op = "verifyAuth"
  /\ rsp.req = req
  /\ rsp.status = 401
  /\ rsp.code = code

\* The identity store's answer rejects the token: an error, or no user.
Rejects(answer) == ~answer.thrown /\ (answer.error \/ answer.user = <<>>)

\* The identity store's answer resolves the token to a user.
Resolves(answer) == ~answer.thrown /\ ~answer.error /\ answer.user # <<>>

\* What verifyAuth does with a request when it starts on it.
DecidesOnHeader(h, req) ==
  IF HasNoHeader(req)
    THEN IsRejection(resp', req, "NO_AUTH_HEADER") /\ inflight' = inflight
  ELSE IF ~TwoPartsBearer(req)
    THEN IsRejection(resp', req, "INVALID_AUTH_FORMAT") /\ inflight' = inflight
  ELSE /\ resp' = NoResp
       /\ inflight'[h].op = "verifyAuth"
       /\ inflight'[h].token =
            SubSeq(req.headers.authorization, 3, Len(req.headers.authorization))

\* What verifyAuth does once the identity store has answered.
DecidesOnAnswer(h) ==
  LET answer == inflight[h].answer IN
  /\ Rejects(answer) =>
       IsRejection(resp', inflight[h].req, "INVALID_TOKEN") /\ inflight'[h] = Idle
  /\ Resolves(answer) =>
       /\ resp' = NoResp
       /\ inflight'[h].op = "next"
       /\ inflight'[h].req = inflight[h].req
       /\ inflight'[h].user.id = answer.user[1].id
       /\ inflight'[h].user.email = answer.user[1].email

\* C15: verifyAuth answers a request without Authorization header 401
\* NO_AUTH_HEADER, one whose header is not exactly two space-separated parts
\* with Bearer first 401 INVALID_AUTH_FORMAT, both without calling the
\* identity store; it answers a token the identity store rejects (error or
\* no user) 401 INVALID_TOKEN; a token resolved to a user it attaches as
\* {id, email} to the request and calls next, which it does in no other case.
C15_VerifyAuthOrder ==
  [][\A h \in Slots :
       /\ (inflight[h] = Idle /\ resp'.op = "verifyAuth")
            => DecidesOnHeader(h, resp'.req)
       /\ (inflight[h] = Idle /\ inflight'[h].op = "verifyAuth")
            => DecidesOnHeader(h, inflight'[h].req)
       /\ (inflight[h].op = "verifyAuth" /\ inflight[h].settled
              /\ inflight'[h] # inflight[h])
            => DecidesOnAnswer(h)
       /\ (inflight'[h].op = "next" /\ inflight[h].op # "next")
            => /\ inflight[h].op = "verifyAuth"
               /\ inflight[h].settled
               /\ Resolves(inflight[h].answer)
    ]_vars

\* verifyAuth has attached user A to a request and called next.
C15_Witness ==
  \E h \in Slots :
    /\ inflight[h].op = "next"
    /\ inflight[h].user.id = "A"
    /\ inflight[h].user.email = EmailOf["A"]
    /\ inflight[h].req.headers.authorization = <<"Bearer", " ", "tA">>

\* The request carries the token of the session of an existing account: a
\* token the identity store accepts.
TokenAccepted(req) ==
  /\ ~HasNoHeader(req)
  /\ \E u \in accounts : req.headers.authorization = <<"Bearer", " ", TokenOf[u]>>

\* The answer is to this request: whatever else the answer says of the
\* request it answers, it has the route, headers, id and body of this one.
AnswerTo(rsp, req) ==
  \A f \in DOMAIN req : f \in DOMAIN rsp.req /\ rsp.req[f] = req[f]

\* The step hands the request to its route's handler, or answers it with a
\* success.
Serves(req) ==
  \/ \E h \in Slots :
       /\ inflight'[h].op = "handler"
       /\ inflight[h].op # "handler"
       /\ inflight'[h].req = req
  \/ /\ resp' # NoResp
     /\ AnswerTo(resp', req)
     /\ resp'.status < 400

\* C16, as amended: for every route the server serves except the health
\* check GET /api/health and the banner at the root GET /, a request without
\* a token accepted by the identity store never reaches the route's handler
\* and never receives a success response.
C16_RoutesRequireIdentity ==
  [][\A req \in ChainRequests :
       (/\ Serves(req)
        /\ req.route # Route("GET", "/api/health", <<"health">>)
        /\ req.route # Route("GET", "/", <<"root">>))
         => TokenAccepted(req)
    ]_vars

\* C16, as claimed: for every route the server serves except GET
\* /api/health, a request without a token accepted by the identity store
\* never reaches the route's handler and never receives a success response.
C16_AllButHealthRequireIdentity ==
  [][\A req \in ChainRequests :
       (Serves(req) /\ req.route # Route("GET", "/api/health", <<"health">>))
         => TokenAccepted(req)
    ]_vars

\* The account deletion was handed to its handler for the user the
\* identity store resolved the token to.
C16_Witness ==
  \E h \in Slots :
    /\ inflight[h].op = "handler"
    /\ inflight[h].req.route.path = "/api/auth/account"
    /\ inflight[h].req.headers.authorization = <<"Bearer", " ", "tB">>
    /\ inflight[h].user.id = "B"

\* A text of blanks only (the empty text included).
Blank(t) == \A i \in DOMAIN t : t[i] = " "

\* The field is missing from the object, or blank.
MissingOrBlank(b, f) == IF f \in DOMAIN b THEN Blank(b[f]) ELSE TRUE

\* The field is there with a value outside the set.
Outside(b, f, S) == IF f \in DOMAIN b THEN b[f] \notin S ELSE FALSE

\* The input of a request to a job route is one the rule sets must reject:
\* an id that is no UUID, a missing or empty company name or role, a status
\* outside the enumeration, a limit outside 1..100, a negative offset.
InvalidInput(req) ==
  LET handler == req.route.chain[Len(req.route.chain)]
      b == req.body
  IN
  \/ handler \in {"getJobById", "updateJob", "deleteJob"} /\ req.id < 1
  \/ /\ handler = "createJob"
     /\ \/ MissingOrBlank(b, "company_name")
        \/ MissingOrBlank(b, "role")
        \/ "status" \notin DOMAIN b
        \/ Outside(b, "status", Statuses)
  \/ /\ handler = "updateJob"
     /\ \/ Outside(b, "status", Statuses)
        \/ "company_name" \in DOMAIN b /\ MissingOrBlank(b, "company_name")
        \/ "role" \in DOMAIN b /\ MissingOrBlank(b, "role")
  \/ /\ handler = "getAllJobs"
     /\ \/ Outside(b, "status", Statuses)
        \/ Outside(b, "limit", 1..100)
        \/ Outside(b, "offset", Nat)

\* The reason codes of a failed authentication.
AuthReasons == {"NO_AUTH_HEADER", "INVALID_AUTH_FORMAT", "INVALID_TOKEN"}

\* Handler h is in its route's controller: entered, or suspended at one of
\* the controller's store calls.
InController(h) ==
  inflight[h].op \in {"handler", "updateJob", "deleteJob", "getJobStats",
                      "deleteAccount", "generateEmail"}

\* C17: a request that fails authentication or validation is answered at
\* the boundary, 401 with a reason code or 400 VALIDATION_ERROR with the
\* list of failing fields, and its controller is never run, so that the
\* record store is neither read nor written: the store and the accounts
\* change only in the steps of a controller, a controller is entered only
\* from the end of its route's chain and only for a request with an accepted
\* token and a valid input, the steps that answer 401 or 400 leave the store
\* as it is, and a request with an accepted token and an invalid input (a
\* non-UUID :id, a missing or empty company name or role, a status outside
\* the enumeration, a limit outside 1..100, a negative offset) is answered
\* 400.
C17_RejectedAtBoundary ==
  [][/\ (\A h \in Slots : ~InController(h)) => store' = store /\ accounts' = accounts
     /\ \A h \in Slots :
          (InController(h)' /\ inflight'[h] # inflight[h]) =>
            \/ InController(h)
            \/ inflight[h].op = "next" /\ inflight'[h].op = "handler"
     /\ \A h \in Slots :
          /\ (inflight'[h].op = "handler" /\ inflight[h].op # "handler")
               => /\ TokenAccepted(inflight'[h].req)
                  /\ ~InvalidInput(inflight'[h].req)
          /\ (inflight[h].op = "next" /\ inflight'[h] # inflight[h]
                 /\ InvalidInput(inflight[h].req))
               => /\ resp'.req = inflight[h].req
                  /\ resp'.status = 400
                  /\ resp'.code = "VALIDATION_ERROR"
                  /\ resp'.errors # {}
                  /\ inflight'[h] = Idle
     /\ resp'.op = "verifyAuth"
          => /\ \A h \in Slots : inflight'[h] = Idle
             /\ store' = store
             /\ \/ resp'.status = 401 /\ resp'.code \in AuthReasons
                \/ /\ resp'.status = 500
                   /\ resp'.code = "AUTH_ERROR"
                   /\ \E h \in Slots : inflight[h].op = "verifyAuth" /\ inflight[h].answer.thrown
     /\ (resp' # NoResp /\ resp'.status = 400)
          => /\ resp'.code = "VALIDATION_ERROR"
             /\ resp'.errors # {}
             /\ store' = store
             /\ \A h \in Slots : inflight'[h] = Idle
             /\ \E h \in Slots : inflight[h].op = "next"
    ]_vars

\* An authenticated PUT with an id that is no UUID was answered 400 for the
\* id.
C17_Witness ==
  /\ resp.op = "updateJob"
  /\ resp.status = 400
  /\ resp.errors = {"id"}
  /\ resp.req.id < 1
  /\ resp.req.headers.authorization = <<"Bearer", " ", "tB">>
  /\ \A h \in Slots : inflight[h] = Idle

\* The messages of the record service's 500 responses: the fixed one of
\* globalErrorHandler and the operations' own, none of them the store's.
GenericMessages ==
  {"Internal server error", "Failed to fetch job applications",
   "Failed to fetch job application", "Failed to create job application",
   "Failed to update job application", "Failed to delete job application",
   "Failed to fetch statistics"}

\* This step answers 500 with the category `code` and a generic message.
SurfacedAs(code) ==
  /\ resp'.status = 500
  /\ resp'.code = code
  /\ resp'.message \in GenericMessages

\* C18: every failure of the store at a call of a record-service operation
\* (list, get, create, update, delete, stats; the check query and the write
\* of update and delete, both queries of stats) is answered 500 with the
\* operation's category and a generic message, never success or not-found.
C18_StoreErrorsSurface ==
  [][/\ \A u \in Users, q \in FaultyQueries :
          \A h \in Slots :
            QueryErrors(q) = {} /\ GetAllJobs(h, u, q, TRUE) => SurfacedAs("FETCH_ERROR")
     /\ \A u \in Users, id \in Ids :
          \A h \in Slots :
            IsUUID(id) /\ GetJobById(h, u, id, TRUE) => SurfacedAs("FETCH_ERROR")
     /\ \A u \in Users, b \in CreateBodies :
          \A h \in Slots :
            JobApplicationErrors(b) = {} /\ CreateJob(h, u, b, TRUE)
              => SurfacedAs("CREATE_ERROR")
     /\ \A h \in Slots, u \in Users, id \in Ids, b \in UpdateBodies :
          IsUUID(id) /\ UpdateJobApplicationErrors(b) = {}
          /\ UpdateJobCheck(h, u, id, b, TRUE)
            => SurfacedAs("UPDATE_ERROR")
     /\ \A h \in Slots : UpdateJobWrite(h, TRUE) => SurfacedAs("UPDATE_ERROR")
     /\ \A h \in Slots, u \in Users, id \in Ids :
          IsUUID(id) /\ DeleteJobCheck(h, u, id, TRUE) => SurfacedAs("DELETE_ERROR")
     /\ \A h \in Slots : DeleteJobWrite(h, TRUE) => SurfacedAs("DELETE_ERROR")
     /\ \A h \in Slots, u \in Users :
          GetJobStatsCount(h, u, TRUE) => SurfacedAs("STATS_ERROR")
     /\ \A h \in Slots : GetJobStatsRecent(h, TRUE) => SurfacedAs("STATS_ERROR")
    ]_vars

\* The rows of user u.
OwnedBy(u) == {r \in store : r.user_id = u}

\* The response reports a deleted account.
AccountDeleted(rsp) == rsp.op = "deleteAccount" /\ rsp.status = 200

\* Handler h is suspended between the deletion of the rows and deleteUser.
AtDeleteUser(h) == inflight[h].op = "deleteAccount"

\* C19: once DELETE /api/auth/account has answered success, the caller's
\* account is gone and so is every row of the caller, whatever requests of
\* the caller ran in between, and no row of a deleted account appears later;
\* the handler deletes the rows before it goes on to the account, and a
\* failed deletion of the rows leaves the account alone and ends the handler.
C19_AccountDeletion ==
  /\ [](AccountDeleted(resp) =>
          resp.req.caller \notin accounts /\ OwnedBy(resp.req.caller) = {})
  /\ [](\A u \in Users : u \notin accounts => OwnedBy(u) = {})
  /\ [][\A h \in Slots :
          ~AtDeleteUser(h) /\ AtDeleteUser(h)'
            => \A r \in store' : r.user_id # inflight'[h].req.caller]_vars
  /\ [][accounts' # accounts =>
          \E h \in Slots :
            /\ AtDeleteUser(h)
            /\ accounts' = accounts \ {inflight[h].req.caller}
            /\ AccountDeleted(resp')]_vars
  /\ [][\A h \in Slots, u \in Users :
          DeleteAccountJobs(h, u, TRUE)
            => /\ accounts' = accounts
               /\ ~AtDeleteUser(h)'
               /\ resp'.status = 500 /\ resp'.code = "DELETE_ERROR"]_vars

\* A's account has been deleted with success after rows were created, and a
\* row of B is still there.
C19_Witness ==
  /\ AccountDeleted(resp)
  /\ resp.req.caller = "A"
  /\ nextId > 2
  /\ OwnedBy("B") # {}

\* The value the rule set of PUT passes on for field f of body b.
Validated(b, f) == IF f \in {"company_name", "role", "notes"} THEN Trim(b[f]) ELSE b[f]

\* Body b names mutable fields only, with values the rule set accepts.
PutAccepted(b) ==
  /\ DOMAIN b \subseteq MutableFields
  /\ \A f \in DOMAIN b \cap {"company_name", "role"} : ~Blank(b[f])
  /\ Has(b, "status") => b.status \in Statuses
  /\ Has(b, "applied_date") => b.applied_date >= 0

\* This step answers the PUT of a body of mutable fields.
AnswersPut == resp' # resp /\ resp'.op = "updateJob" /\ PutAccepted(resp'.req.body)

\* C20: a successful PUT by the owner gives each mutable field of the body
\* its validated value in the row, leaves every other column but updated_at
\* as it was, sets updated_at to the time of the update, returns the row and
\* changes no other row; and a PUT of accepted mutable fields on a row of
\* the caller succeeds whatever the row's status and the status asked for.
C20_UpdateFrame ==
  [][AnswersPut =>
       LET req == resp'.req
           b == req.body
           old == {r \in store : r.id = req.id /\ r.user_id = req.caller}
           new == {r \in store' : r.id = req.id}
       IN /\ resp'.status = 200 =>
               /\ Cardinality(old) = 1 /\ Cardinality(new) = 1
               /\ \A o \in old, n \in new :
                    /\ \A f \in DOMAIN b : n[f] = Validated(b, f)
                    /\ \A f \in (Columns \ DOMAIN b) \ {"updated_at"} : n[f] = o[f]
                    /\ n.updated_at = now /\ n.updated_at > o.updated_at
                    /\ resp'.data = <<n>>
               /\ store' \ new = store \ old
          /\ IsUUID(req.id) /\ old # {} => resp'.status = 200
    ]_vars

\* A PUT of the status alone has moved a row of A back to Applied among two
\* rows, the other one as it was created.
C20_Witness ==
  /\ resp.op = "updateJob" /\ resp.status = 200
  /\ DOMAIN resp.req.body = {"status"}
  /\ resp.req.body.status = "Applied"
  /\ \E r1, r2 \in store :
       /\ r1.id = resp.req.id /\ r1.updated_at > r1.created_at
       /\ r1.status = "Applied" /\ r1.notes = <<"n">>
       /\ r2.id # r1.id /\ r2.status = "Offer" /\ r2.updated_at = r2.created_at

\* The lines of a text, and whether a line is blank or begins with
\* "subject:" in some letter case.
LinesOf(t) == Split(t, "\n")
BlankLine(l) == \A k \in DOMAIN l : IsSpace(l[k])
BeginsWithSubject(l) == l # <<>> /\ l[1] \in {"Subject:", "SUBJECT:", "subject:"}

\* The first subject line of a text, 0 if it has none.
FirstSubjectLine(lines) ==
  IF \E i \in DOMAIN lines : BeginsWithSubject(lines[i])
    THEN CHOOSE i \in DOMAIN lines :
           /\ BeginsWithSubject(lines[i])
           /\ \A j \in DOMAIN lines : BeginsWithSubject(lines[j]) => i <= j
    ELSE 0

\* The lines after the subject line, one blank separator skipped; every line
\* when there is no subject line.
BodyLines(lines) ==
  LET i == FirstSubjectLine(lines)
      rest == SubSeq(lines, i + 1, Len(lines))
  IN IF i # 0 /\ rest # <<>> /\ BlankLine(rest[1]) THEN Tail(rest) ELSE rest

\* C21: a draft of the AI path has as subject the text after "Subject:" on
\* the first line beginning with it in any letter case, or "Application for
\* {role} at {company}" when that is empty; as body the text after the
\* subject line with one separator line skipped (the whole text without a
\* subject line), or the completion text when that is empty; and every line
\* of the completion that is neither the subject line nor blank is a line of
\* the body.
C21_ParsedAsClaimed ==
  [][\A h \in Slots :
       (Resumes(h) /\ resp'.status = 200 /\ resp'.data.generated_by = "ai") =>
         LET t == Trim(inflight[h].completion.content)
             lines == LinesOf(t)
             i == FirstSubjectLine(lines)
             subject == IF i = 0 THEN <<>> ELSE Trim(Tail(lines[i]))
             body == Trim(Join(BodyLines(lines), "\n"))
             b == resp'.req.body
         IN /\ resp'.data.subject =
                 IF subject # <<>> THEN subject
                 ELSE <<"Application for ">> \o Trim(b.role) \o <<" at ">>
                        \o Trim(b.company_name)
            /\ resp'.data.body = IF body # <<>> THEN body ELSE t
            /\ \A j \in DOMAIN lines :
                 (j # i /\ ~BlankLine(lines[j])) =>
                   \E l \in DOMAIN LinesOf(resp'.data.body) :
                     Trim(LinesOf(resp'.data.body)[l]) = Trim(lines[j])
    ]_vars

\* The server runs in development mode, read off the environment.
DevelopmentMode == "NODE_ENV" \in DOMAIN env /\ env.NODE_ENV = "development"

\* The status and code the claim gives an error's answer.
ClaimedStatus(err) ==
  IF "statusCode" \in DOMAIN err /\ err.statusCode # 0 THEN err.statusCode ELSE 500
ClaimedCode(err) ==
  IF "code" \in DOMAIN err /\ err.code # "" THEN err.code ELSE "INTERNAL_ERROR"

\* Handler h has an error on its way to globalErrorHandler and this step
\* answers it.
AnswersError(h) == inflight[h].op = "error" /\ inflight'[h] = Idle

\* The answer has the shape and content globalErrorHandler is to give to err.
AnsweredAsClaimed(rsp, err) ==
  /\ {"success", "message", "code"} \subseteq DOMAIN rsp
  /\ rsp.success = FALSE
  /\ rsp.status = ClaimedStatus(err)
  /\ rsp.code = ClaimedCode(err)
  /\ IF DevelopmentMode
       THEN rsp.message = err.message /\ "stack" \in DOMAIN rsp /\ rsp.stack = err.stack
       ELSE /\ "stack" \notin DOMAIN rsp
            /\ rsp.message = IF rsp.status = 500 THEN "Internal server error"
                              ELSE err.message

\* The request matched no route the server registers.
IsUnmatched(req) ==
  ~\E r \in AppRoutes :
     /\ r.method = req.route.method /\ r.path = req.route.path
     /\ HandlerOf(r) # "notFoundHandler"

\* The request entered a router that runs verifyAuth on all that enters it.
BehindVerifyAuth(req) ==
  req.route.path \in {"/api/jobs", "/api/jobs/stats", "/api/jobs/:id",
                      "/api/ai/status", "/api/ai/generate-email", "/api/ai/nothing"}

\* This step answers a request that matched no route.
AnswersUnmatched == resp' # resp /\ resp' # NoResp /\ IsUnmatched(resp'.req)

\* The answer of notFoundHandler.
IsRouteNotFound(rsp) ==
  AnsweredAsClaimed(rsp, [message |-> "Route not found: " \o rsp.req.route.path,
                          statusCode |-> 404,
                          code |-> "ROUTE_NOT_FOUND", stack |-> "stack"])

\* Every error passed to globalErrorHandler is answered as the claim says.
ErrorsAnswered ==
  \A h \in Slots :
    AnswersError(h) =>
      resp'.req = inflight[h].req /\ AnsweredAsClaimed(resp', inflight[h].err)

\* The body of the request is one the body parsers refuse.
BodyRefused(req) == "raw" \in DOMAIN req.body

\* The request names an origin that cors refuses: one that is neither local
\* nor the configured frontend, outside development mode.
OriginRefused(req) ==
  /\ "origin" \in DOMAIN req.headers
  /\ req.headers.origin \notin
       {"", "http://localhost:5173", "http://localhost:3000"} \cup
         {env[k] : k \in {"FRONTEND_URL"} \cap DOMAIN env}
  /\ ~DevelopmentMode

\* The answer to a request that matched no route: that of the first in the
\* order of registration to end it.
UnmatchedAnswered(rsp) ==
  IF BodyRefused(rsp.req)
    THEN /\ rsp.success = FALSE
         /\ rsp.status \in {400, 413}
         /\ rsp.code = "INTERNAL_ERROR"
  ELSE IF OriginRefused(rsp.req)
    THEN /\ rsp.success = FALSE
         /\ rsp.status = 500
         /\ rsp.code = "INTERNAL_ERROR"
         /\ rsp.message = "Internal server error"
  ELSE IF rsp.req.route.method = "OPTIONS"
    THEN rsp.status = 204
  ELSE \/ IsRouteNotFound(rsp)
       \/ /\ BehindVerifyAuth(rsp.req)
          /\ rsp.op = "verifyAuth"
          /\ rsp.status \in {401, 500}

\* C22, as amended: globalErrorHandler answers every error passed to it with
\* {success: false, message, code}, the status being the error's statusCode
\* or 500 and the code the error's code or INTERNAL_ERROR; outside
\* development mode a 500 response carries the fixed message "Internal
\* server error" and no stack, while the original message and stack are
\* included only when NODE_ENV is "development". A request that matches no
\* route and reaches notFoundHandler is answered 404 ROUTE_NOT_FOUND; one
\* that a middleware registered ahead of it ends is not: a body the parsers
\* refuse is answered 400 or 413, an origin cors refuses 500, both under
\* INTERNAL_ERROR; any other OPTIONS request is answered 204 by cors; under
\* /api/jobs and /api/ai verifyAuth, which runs first there, answers 401 (or
\* 500) unless the request carries a verified identity.
C22_ErrorsAnswered ==
  [][/\ ErrorsAnswered
     /\ AnswersUnmatched => UnmatchedAnswered(resp')
    ]_vars

\* C22, as claimed: the same, with every request that matches no route
\* answered 404 ROUTE_NOT_FOUND.
C22_UnmatchedAlwaysNotFound ==
  [][/\ ErrorsAnswered
     /\ AnswersUnmatched => IsRouteNotFound(resp')
    ]_vars

\* Outside development and production, a system error without a status has
\* been answered 500 under its own code, with the fixed message and no
\* stack; the same request would have been 404 had it matched no route.
C22_Witness ==
  /\ "NODE_ENV" \in DOMAIN env /\ env.NODE_ENV = "test"
  /\ resp.op = "getJobStats"
  /\ resp.success = FALSE
  /\ resp.status = 500
  /\ resp.code = "ECONNREFUSED"
  /\ resp.message = "Internal server error"
  /\ "stack" \notin DOMAIN resp

\* The process is listening for requests; it has exited.
Listening == inflight[Main].op = "listening"
Exited == inflight[Main].op = "exited"

\* The startup connection test has settled without success.
TestFailed ==
  /\ inflight[Main].op = "startServer"
  /\ inflight[Main].settled
  /\ inflight[Main].outcome \in {"error", "throws"}

\* C23: the server listens only after the startup connection test has
\* succeeded, and takes and answers requests only while it listens; after a
\* test that reported failure or threw, the next step of the process is its
\* exit with status 1, and a process that has exited never listens.
C23_ListensAfterTest ==
  /\ [](Listening => inflight[Main].outcome = "ok")
  /\ [][Listening' /\ ~Listening =>
          /\ inflight[Main].op = "startServer"
          /\ inflight[Main].settled
          /\ inflight[Main].outcome = "ok"]_vars
  /\ [][(\E h \in Handlers : inflight'[h] # inflight[h]) \/ resp' # resp
          => Listening /\ Listening']_vars
  /\ [][TestFailed /\ inflight'[Main] # inflight[Main] =>
          Exited' /\ inflight'[Main].code = 1]_vars
  /\ [][Exited => Exited' /\ inflight'[Main] = inflight[Main]]_vars

\* The server listens and has answered the health check.
C23_Witness ==
  /\ Listening
  /\ resp.op = "health"
  /\ resp.status = 200

\* Handler h, suspended in operation op, answers in this step.
Completes(h, op) == inflight[h].op = op /\ inflight'[h] = Idle

\* C24: of the DELETE /api/jobs/:id requests of the owner for one record,
\* however they interleave, only the one that removes the record answers
\* success (a record is removed once, its id never used again); a request
\* that finds the record gone, at its check or at its delete, answers 404
\* NOT_FOUND.
C24_OneDeleteSucceeds ==
  [][\A h \in Slots :
       Completes(h, "deleteJob") =>
         LET req == inflight[h].req
             before == {r \in store : r.id = req.id /\ r.user_id = req.caller}
         IN /\ resp'.op = "deleteJob" /\ resp'.req = req
            /\ resp'.status = 200 => before # {} /\ before \cap store' = {}
            /\ before = {} => IsNotFound(resp')
    ]_vars

\* C25: when the row an update checked has been deleted by the time of its
\* write, the write changes no row and creates none, and the update request
\* is not answered with success.
C25_UpdateAfterDelete ==
  [][\A h \in Slots :
       (/\ Completes(h, "updateJob")
        /\ \A r \in store : r.id # inflight[h].req.id)
         => /\ store' = store
            /\ resp'.op = "updateJob" /\ resp'.req = inflight[h].req
            /\ resp'.status # 200
            /\ resp'.success = FALSE
    ]_vars

\* An update of a row that was created and is gone was answered with the
\* update error, the other row as it was created.
C25_Witness ==
  /\ resp.op = "updateJob"
  /\ resp.status = 500
  /\ resp.code = "UPDATE_ERROR"
  /\ resp.req.id < nextId
  /\ \A r \in store : r.id # resp.req.id /\ r.updated_at = r.created_at
  /\ store # {}

\* The identity and creation time of every row of a table.
Identities(rows) == {[id |-> r.id, created_at |-> r.created_at] : r \in rows}

\* C26: no PUT /api/jobs/:id that passes authentication and validation,
\* whatever its body carries, changes the id or the created timestamp of a
\* row; the updated timestamp of the row it writes is the time of the write,
\* not a value of the body.
C26_IdAndCreatedFixed ==
  [][\A h \in Slots :
       Completes(h, "updateJob") =>
         /\ Identities(store') = Identities(store)
         /\ resp'.status = 200 =>
              /\ resp'.data[1].id = inflight[h].req.id
              /\ resp'.data[1].updated_at = now
    ]_vars

\* C27: a DELETE /api/auth/account that answers an error has left the
\* caller's account and rows as they were: its deletion of the rows failed
\* and removed nothing, or the rows it removed are there when it answers.
C27_AccountDeletionAtomic ==
  [][/\ \A h \in Slots, u \in Users :
          DeleteAccountJobs(h, u, TRUE) => store' = store /\ accounts' = accounts
     /\ \A h \in Slots :
          (Completes(h, "deleteAccount") /\ resp'.status # 200) =>
            /\ resp'.code = "DELETE_ERROR"
            /\ accounts' = accounts
            /\ inflight[h].deleted \subseteq store'
    ]_vars

\* C28: every stored row has a status of the enumeration and a company name
\* and a role that are not empty (nor blank), and every statistics response
\* has total = applied + interview + rejected + offer.
C28_RowsWellFormed ==
  /\ \A r \in store :
       /\ r.status \in {"Applied", "Interview", "Rejected", "Offer"}
       /\ r.company_name # <<>> /\ ~Blank(r.company_name)
       /\ r.role # <<>> /\ ~Blank(r.role)
  /\ (resp.op = "getJobStats" /\ resp.status = 200) =>
       resp.stats.total = resp.stats.applied + resp.stats.interview
                            + resp.stats.rejected + resp.stats.offer

\* Statistics were answered over a row that an update has written.
C28_Witness ==
  /\ resp.op = "getJobStats"
  /\ resp.status = 200
  /\ resp.stats.total >= 1
  /\ \E r \in store :
       r.user_id = resp.req.caller /\ r.updated_at > r.created_at
       /\ r.status = "Interview"

\* C29: the list of recent rows of a statistics response has min(5, total)
\* rows, total being the count of the same response, whatever requests of
\* the caller ran between the handler's two queries and whether or not the
\* second query failed.
C29_StatsParts ==
  (resp.op = "getJobStats" /\ resp.status = 200) =>
    Len(resp.data) = IF resp.stats.total < 5 THEN resp.stats.total ELSE 5

====
